---------------------------- MODULE Spec2Model ----------------------------
(***************************************************************************)
(* The streaming agentic loop of jarvis-ai: TaskPlanner.execute            *)
(* (core/TaskPlanner.js) driving AIGateway.stream (core/AIGateway.js) and  *)
(* PluginManager.execute (core/PluginManager.js).                          *)
(*                                                                         *)
(* One behaviour is one top-level call: either a TaskPlanner.execute run   *)
(* (caller = "execute") or an AIGateway.complete call that drains one      *)
(* AIGateway.stream invocation (caller = "complete").  The model endpoint  *)
(* and the tools are the environment: the endpoint answers each call with  *)
(* a response whose deltas it delivers one wire chunk at a time.           *)
(***************************************************************************)
EXTENDS Integers, Sequences, FiniteSets, TLC

VARIABLES
    caller,        \* which top-level operation this behaviour is
    taskType,      \* request.taskType (context.context?.taskType)
    override,      \* modelName argument of the top-level stream call
    ctxMessages,   \* context.messages, the caller's own array
    pc,            \* position of execute / complete
    iterations,    \* execute: let iterations
    messages,      \* execute: let messages
    responseText,  \* execute: responseText  (complete: result)
    toolCalls,     \* execute: toolCalls     (complete: toolCalls)
    tcIdx,         \* execute: position of "for (const tc of toolCalls)"
    out,           \* chunks execute has yielded to its caller, in order
    client,        \* chunks the socket handler has emitted to the client
    gw,            \* position of the innermost stream frame
    model,         \* stream: const model of the innermost frame
    acc,           \* stream: let toolCalls (the accumulators, 0-based)
    wire,          \* what the endpoint has still to deliver on this call
    error,         \* the error caught by / thrown from stream
    attempts,      \* endpoint calls of the current stream invocation
    gwOut,         \* chunks the current stream invocation has yielded
    gwCalls,       \* number of Gateway.stream calls the run has issued
    request,       \* request.messages of the latest Gateway.stream call
    prevRequest,   \* request.messages of the Gateway.stream call before
    invoked,       \* plugins.execute calls so far: call id, tool, outcome
    registry,      \* PluginManager: this.tools, the Map in insertion order
    registered,    \* the tools.set calls made since the Map was last empty
    execLog,       \* PluginManager.execute calls made on their own
    runs,          \* the execute runs that share the planner (SpecRuns)
    stopAt,        \* the chunk after which the consumer stops iterating
    env,           \* process.env.DEFAULT_MODEL
    status,        \* Jarvis: this.status
    currentContext,\* Jarvis: this.currentContext
    procs,         \* the Jarvis.process calls on the shared instance
    memories,      \* SemanticMemory: this.memories
    size,          \* SemanticMemory: this.size
    clock,         \* Date.now(), in milliseconds
    memCalls       \* SemanticMemory: its calls made on their own

vars == <<caller, taskType, override, ctxMessages, pc, iterations, messages,
          responseText, toolCalls, tcIdx, out, client, gw, model, acc, wire,
          error, attempts, gwOut, gwCalls, request, prevRequest, invoked,
          registry, registered, execLog, runs, stopAt, env, status,
          currentContext, procs, memories, size, clock, memCalls>>

plannerVars == <<iterations, messages, tcIdx, out, client, gwCalls, request,
                 prevRequest, invoked>>

\* plannerVars without what the client has been sent
plannerLocals == <<iterations, messages, tcIdx, out, gwCalls, request,
                   prevRequest, invoked>>

\* the PluginManager and the runs beside the one followed step by step
managerVars == <<registry, registered, execLog, runs>>

\* what no step of the run followed changes: its arguments, its consumer's
\* choice, the environment of the process, and managerVars
inputVars == <<caller, taskType, override, ctxMessages, managerVars, stopAt,
               env, status, currentContext, procs, memories, size, clock,
               memCalls>>

\* the SemanticMemory
memoryVars == <<memories, size, clock, memCalls>>

\* the Jarvis instance
jarvisVars == <<status, currentContext, procs>>

\* no Jarvis is constructed: no process call, an empty memory
JarvisIdle ==
    /\ status = "none"
    /\ currentContext = <<>>
    /\ procs = <<>>
    /\ memories = <<>>
    /\ size = 0
    /\ clock = 0
    /\ memCalls = [stores |-> 0, recalled |-> <<>>]

---------------------------------------------------------------------------
(* Program constants *)

\* TaskPlanner constructor: this.maxIterations = 10
maxIterations == 10

\* null and undefined, as the value of an argument or variable not set
Null == "null"

\* config.ai.fastModel, config.ai.defaultModel (process.env.DEFAULT_MODEL
\* || 'llama-3.3-70b-versatile'), config.routing
fastModel == "llama-3.1-8b-instant"
defaultModel == IF env = Null THEN "llama-3.3-70b-versatile" ELSE env
reasoningModel == "deepseek-r1-distill-llama-70b"
visionModel == "llama-3.2-90b-vision-preview"

routing == [general |-> "llama-3.3-70b-versatile",
            reasoning |-> reasoningModel,
            coding |-> "llama-3.3-70b-versatile",
            vision |-> visionModel,
            fast |-> "llama-3.1-8b-instant"]

\* keys every object inherits, and what reading one gives
ObjectPrototypeKeys == {"constructor", "toString"}
InheritedMember == "[Function]"

---------------------------------------------------------------------------
(* Bounds of the environment *)

\* content deltas one endpoint response holds at most
MaxContent == 1
\* the first turns of an execute run, in which the endpoint may fail or
\* answer with any response of ExecutePlans and a tool may end in any way;
\* in the later turns the endpoint answers with one of PlainPlans and the
\* tool returns a string
MaxRichTurns == 1

NoId == <<>>

\* stopAt when the consumer iterates to the end
NoStop == 0

\* request.taskType values tried: absent, routed, routed to the fallback
\* model, and one with no routing entry
TaskTypes == {"undefined", "reasoning", "fast", "bogus"}
\* ... of which an execute run tries: absent, and routed to the fallback
ExecuteTaskTypes == {"undefined", "fast"}

\* tool names: "t" is registered, "x" is not, <<>> is the empty name;
\* the keys of this.tools
RegisteredTools == {registry[i].name : i \in 1..Len(registry)}
WireNames == {<<"t">>, <<"x">>, <<>>}

\* argument texts the endpoint may send: nothing, two JSON objects, and a
\* truncated object
ArgTexts == {<<>>, <<"{", "}">>, <<"{", "a", "}">>, <<"{", "a">>}


---------------------------------------------------------------------------
(* Pure functions of AIGateway *)

\* selectModel(taskType = 'general'): config.routing[taskType] ||
\* config.ai.defaultModel
\* config.routing is an object literal: a key it does not hold itself is
\* looked up in Object.prototype, whose members are functions
selectModel(t) ==
    LET tt == IF t = "undefined" THEN "general" ELSE t
    IN  IF tt \in DOMAIN routing THEN routing[tt]
        ELSE IF tt \in ObjectPrototypeKeys THEN InheritedMember
        ELSE defaultModel

\* a value that || passes over: null, undefined, the empty string
Falsy(v) == v \in {Null, "undefined", ""}

\* stream: const model = modelName || this.selectModel(request.taskType)
streamModel(modelName, t) ==
    IF ~Falsy(modelName) THEN modelName ELSE selectModel(t)

\* JSON.parse on the texts of the model: an object is "{", at most one
\* key "a", "}"; its value is the set of its keys.  Anything else is a
\* SyntaxError.
JSONparse(text) ==
    IF text = <<"{", "}">> THEN [ok |-> TRUE, value |-> {}]
    ELSE IF text = <<"{", "a", "}">> THEN [ok |-> TRUE, value |-> {"a"}]
    ELSE [ok |-> FALSE, value |-> {}]

\* JSON.stringify of a parsed object
JSONstringify(value) ==
    IF "a" \in value THEN <<"{", "a", "}">> ELSE <<"{", "}">>

\* tc.arguments || '{}'
OrEmptyObject(text) == IF text = <<>> THEN <<"{", "}">> ELSE text

\* A text is the sequence of its characters; a text whose length plays no
\* part (the prompt, an error message) is written as one element.
\* A stream chunk; fields a type does not carry hold their empty value.
Chunk(type, content, tool, arguments, id, m) ==
    [type |-> type, content |-> content, tool |-> tool,
     arguments |-> arguments, id |-> id, model |-> m]

PlainChunk(type) == Chunk(type, <<>>, <<>>, {}, NoId, "")

\* A slot of the accumulator array: a hole (never assigned) or an object
Hole == [hole |-> TRUE, id |-> NoId, name |-> <<>>, arguments |-> <<>>]

\* !toolCalls[tc.index]
NoSlot(a, i) == i + 1 > Len(a) \/ a[i + 1].hole

\* toolCalls[i] = v  (a JavaScript array grows, leaving holes)
SetSlot(a, i, v) ==
    IF i + 1 <= Len(a) THEN [a EXCEPT ![i + 1] = v]
    ELSE a \o [k \in 1..(i - Len(a)) |-> Hole] \o <<v>>

\* Mutant of ApplyDelta: the argument fragment is assigned, not appended
ApplyDeltaAssign(a, tc) ==
    LET a1 == IF NoSlot(a, tc.index)
              THEN SetSlot(a, tc.index,
                     [hole |-> FALSE, id |-> tc.id, name |-> <<>>,
                      arguments |-> <<>>])
              ELSE a
        a2 == IF tc.name # <<>>
              THEN [a1 EXCEPT ![tc.index + 1].name = tc.name]
              ELSE a1
    IN  IF tc.arguments # <<>>
        THEN [a2 EXCEPT ![tc.index + 1].arguments = tc.arguments]
        ELSE a2

\* The body of "for (const tc of delta.tool_calls)" for one delta
\* tc = [index, id, name, arguments]; an absent name or argument fragment
\* is the empty text.
ApplyDelta(a, tc) ==
    LET a1 == IF NoSlot(a, tc.index)
              THEN SetSlot(a, tc.index,
                     [hole |-> FALSE, id |-> tc.id, name |-> <<>>,
                      arguments |-> <<>>])
              ELSE a
        a2 == IF tc.name # <<>>
              THEN [a1 EXCEPT ![tc.index + 1].name = tc.name]
              ELSE a1
    IN  IF tc.arguments # <<>>
        THEN [a2 EXCEPT ![tc.index + 1].arguments = @ \o tc.arguments]
        ELSE a2

\* The loop run on finish_reason === 'tool_calls', from slot k on: the
\* tool_call chunks it yields, and the error that ended it ("none" when it
\* ran to the end).  Reading tc.name of a hole is a TypeError; JSON.parse
\* raises a SyntaxError.
RECURSIVE EmitToolCalls(_, _, _)
EmitToolCalls(a, k, m) ==
    IF k > Len(a) THEN [chunks |-> <<>>, err |-> "none"]
    ELSE IF a[k].hole THEN [chunks |-> <<>>, err |-> "TypeError"]
    ELSE IF a[k].name = <<>> THEN EmitToolCalls(a, k + 1, m)
    ELSE LET p == JSONparse(OrEmptyObject(a[k].arguments))
         IN  IF ~p.ok THEN [chunks |-> <<>>, err |-> "SyntaxError"]
             ELSE LET r == EmitToolCalls(a, k + 1, m)
                  IN  [chunks |-> <<Chunk("tool_call", <<>>, a[k].name,
                                          p.value, a[k].id, m)>>
                                  \o r.chunks,
                       err |-> r.err]

\* m.attachments?.length > 0
HasAttachments(m) ==
    "attachments" \in DOMAIN m /\ Len(m.attachments) > 0

\* formatMessages(messages): of each message the role and the content go
\* into the wire message, and nothing else; the content of a message with
\* attachments is the text part followed by one image part for each
FormatMessage(m) ==
    [role |-> m.role,
     content |-> IF HasAttachments(m)
                 THEN <<[type |-> "text", text |-> m.content]>>
                      \o [k \in 1..Len(m.attachments) |->
                            [type |-> "image_url",
                             image_url |-> m.attachments[k]]]
                 ELSE m.content]

formatMessages(ms) == [i \in 1..Len(ms) |-> FormatMessage(ms[i])]

\* A chunk execute yields goes to the for-await loop of Jarvis.process,
\* which yields it on to the loop of the socket handler, which emits it,
\* all before execute is resumed.
Yield(chunk) ==
    /\ out' = Append(out, chunk)
    /\ client' = Append(client, chunk)

\* Jarvis.process without the planner: for await (const chunk of
\* this.gateway.stream(fullContext)) yield chunk, which the socket handler
\* emits; no other consumer of stream sends its chunks on as they are
Forward(chunks) ==
    client' = IF caller = "direct" THEN client \o chunks ELSE client

\* The chunks of a sequence that have the given type
OfType(chunks, type) == SelectSeq(chunks, LAMBDA c : c.type = type)


---------------------------------------------------------------------------
(* PluginManager: the Map this.tools *)

\* A tool object of a plugin: its name, the rest of its definition, and
\* its execute function; `origin` tells apart tools of the same name
Tool(name, origin) ==
    [name |-> name, description |-> origin, execute |-> origin]

\* { definition: tool, execute: tool.execute, plugin: name }; the
\* definition is what the model endpoint is given of the tool
Entry(tool, plugin) ==
    [name |-> tool.name,
     definition |-> [name |-> tool.name, description |-> tool.description],
     execute |-> tool.execute,
     plugin |-> plugin]

\* Map.prototype.has, Map.prototype.get
MapHas(map, name) == \E i \in 1..Len(map) : map[i].name = name
MapGet(map, name) ==
    map[CHOOSE i \in 1..Len(map) : map[i].name = name]

\* Mutant of MapSet: the entry is added whether or not the key is there
MapSetPush(map, entry) == Append(map, entry)

\* Map.prototype.set: the value of a key that is there is replaced, in
\* place; a new key goes to the end
MapSet(map, entry) ==
    IF MapHas(map, entry.name)
    THEN [i \in 1..Len(map) |->
            IF map[i].name = entry.name THEN entry ELSE map[i]]
    ELSE Append(map, entry)

\* for (const tool of plugin.tools) this.tools.set(tool.name, {...}),
\* from the k-th tool on
RECURSIVE SetTools(_, _, _, _)
SetTools(map, tools, plugin, k) ==
    IF k > Len(tools) THEN map
    ELSE SetTools(MapSet(map, Entry(tools[k], plugin)), tools, plugin, k + 1)

\* this.tools.set(entry.name, entry) for each entry, from the k-th on;
\* the Map after each set is evaluated (it has the key just set) before
\* the next set is made on it
RECURSIVE SetEntries(_, _, _)
SetEntries(map, entries, k) ==
    IF k > Len(entries) THEN map
    ELSE LET set == MapSet(map, entries[k])
         IN  IF MapHas(set, entries[k].name)
             THEN SetEntries(set, entries, k + 1)
             ELSE set

\* the entries those tools.set calls were made with, in order
Entries(tools, plugin) == [k \in 1..Len(tools) |-> Entry(tools[k], plugin)]

\* registerBuiltInTools: the five built-in tools, in the order they are set
BuiltInTools ==
    <<Tool(<<"get_current_time">>, "builtin"),
      Tool(<<"calculate">>, "builtin"),
      Tool(<<"open_app">>, "builtin"),
      Tool(<<"run_command">>, "builtin"),
      Tool(<<"web_search">>, "builtin")>>

\* getToolDefinitions(): Array.from(this.tools.values()).map(t =>
\* t.definition)
getToolDefinitions(map) == [i \in 1..Len(map) |-> map[i].definition]

---------------------------------------------------------------------------
(* Pure functions of TaskPlanner and PluginManager *)

\* formatResult: result.length > 200, substring(0, 200)
TruncationLimit == 200

\* '...'
Ellipsis == <<".", ".", ".">>

\* What a tool function may give back: a string, an object (the set of
\* its keys, as JSONparse gives it) or nothing at all
StringResult(text) == [kind |-> "string", str |-> text, obj |-> {}]
ObjectResult(keys) == [kind |-> "object", str |-> <<>>, obj |-> keys]
Undefined == [kind |-> "undefined", str |-> <<>>, obj |-> {}]

\* How an awaited call ends: it returns a result, or throws an error with
\* a message
Returns(result) == [threw |-> FALSE, result |-> result, message |-> <<>>]
Throws(message) == [threw |-> TRUE, result |-> Undefined, message |-> message]

\* Mutant of PluginsExecute: the catch block does not rethrow
PluginsExecuteSwallow(tool, outcome) ==
    IF tool \notin RegisteredTools
    THEN Throws(<<"Unknown tool: ">> \o tool)
    ELSE IF outcome.threw THEN Returns(Undefined) ELSE outcome

\* PluginManager.execute(toolName, args) for a tool that, when it is
\* registered and invoked, ends as `outcome` says
PluginsExecute(tool, outcome) ==
    IF tool \notin RegisteredTools
    THEN Throws(<<"Unknown tool: ">> \o tool)
    ELSE outcome

\* JSON.stringify(result, null, 2) of an object
JSONstringifyPretty(value) ==
    IF "a" \in value THEN <<"{", "\n", " ", " ", "a", "\n", "}">>
    ELSE <<"{", "}">>

\* Mutant of Truncate: the text is never cut
TruncateNever(text) == text

\* str.length > 200 ? str.substring(0, 200) + '...' : str
Truncate(text) ==
    IF Len(text) > TruncationLimit
    THEN SubSeq(text, 1, TruncationLimit) \o Ellipsis
    ELSE text

\* formatResult(result): of undefined, JSON.stringify(undefined, null, 2)
\* is undefined and reading its length is a TypeError
formatResult(result) ==
    IF result.kind = "string" THEN Returns(StringResult(Truncate(result.str)))
    ELSE IF result.kind = "undefined" THEN Throws(<<"TypeError">>)
    ELSE Returns(StringResult(Truncate(JSONstringifyPretty(result.obj))))

\* typeof result === 'string' ? result : JSON.stringify(result)
MessageText(result) ==
    IF result.kind = "string" THEN result.str ELSE JSONstringify(result.obj)

\* `> Result: ${...}\n`, `> Error: ${...}\n`, `Error: ${...}`
ResultPrefix == <<">", " ", "R", "e", "s", "u", "l", "t", ":", " ">>
ErrorPrefix == <<"E", "r", "r", "o", "r", ":", " ">>
Quote == <<">", " ">>
Newline == <<"\n">>

ToolMessage(content, id) ==
    [role |-> "tool", content |-> content, tool_calls |-> <<>>,
     tool_call_id |-> id]

\* Mutant of ToolStep: the catch block pushes its message without the
\* tool_call_id
ToolStepNoCallId(tc, outcome) ==
    LET res == PluginsExecute(tc.tool, outcome)
        fmt == IF res.threw THEN res ELSE formatResult(res.result)
    IN  IF fmt.threw
        THEN [chunk |-> Chunk("tool_error",
                              Quote \o ErrorPrefix \o fmt.message \o Newline,
                              tc.tool, {}, NoId, ""),
              msg |-> ToolMessage(ErrorPrefix \o fmt.message, NoId)]
        ELSE [chunk |-> Chunk("tool_result",
                              ResultPrefix \o fmt.result.str \o Newline,
                              tc.tool, {}, NoId, ""),
              msg |-> ToolMessage(MessageText(res.result), tc.id)]

\* The try/catch of one tool call: the chunk yielded after tool_start and
\* the tool message pushed.
ToolStep(tc, outcome) ==
    LET res == PluginsExecute(tc.tool, outcome)
        fmt == IF res.threw THEN res ELSE formatResult(res.result)
    IN  IF fmt.threw
        THEN [chunk |-> Chunk("tool_error",
                              Quote \o ErrorPrefix \o fmt.message \o Newline,
                              tc.tool, {}, NoId, ""),
              msg |-> ToolMessage(ErrorPrefix \o fmt.message, tc.id)]
        ELSE [chunk |-> Chunk("tool_result",
                              ResultPrefix \o fmt.result.str \o Newline,
                              tc.tool, {}, NoId, ""),
              msg |-> ToolMessage(MessageText(res.result), tc.id)]

\* Mutant of AssistantMessage: the tool_calls field is left out
AssistantMessageNoToolCalls(text, tcs) ==
    [role |-> "assistant", content |-> text, tool_calls |-> <<>>,
     tool_call_id |-> NoId]

\* messages.push({role: 'assistant', content: responseText, tool_calls})
AssistantMessage(text, tcs) ==
    [role |-> "assistant", content |-> text,
     tool_calls |-> [k \in 1..Len(tcs) |->
                       [id |-> tcs[k].id, name |-> tcs[k].tool,
                        arguments |-> JSONstringify(tcs[k].arguments)]],
     tool_call_id |-> NoId]

Message(role, content) ==
    [role |-> role, content |-> content, tool_calls |-> <<>>,
     tool_call_id |-> NoId]

---------------------------------------------------------------------------
(* The environment: what the endpoint may answer *)

NoWire == [content |-> 0, calls |-> <<>>, finish |-> "stop",
           finished |-> TRUE]

\* One tool call of a response: its index, id, name and argument text;
\* rest is the part of the text not delivered yet, sent whether its first
\* delta went out, frags the number of non-empty fragments delivered.
CallPlan(i, name, args) ==
    [index |-> i, id |-> NoId, name |-> name, text |-> args, rest |-> args,
     sent |-> FALSE, frags |-> 0]

Plan(c, calls, finish) ==
    [content |-> c, calls |-> calls, finish |-> finish, finished |-> FALSE]

\* text only, or one call of the registered tool without arguments
PlainPlans ==
    { Plan(1, <<>>, "stop"),
      Plan(0, <<CallPlan(0, <<"t">>, <<>>)>>, "tool_calls") }

\* the answers of a rich turn of execute: the plain ones; two calls, the
\* second of an unknown tool; two calls, the second with a text that does
\* not parse; tool-call deltas under another finish signal
ExecutePlans ==
    PlainPlans \cup
    { Plan(1, <<CallPlan(0, <<"t">>, <<"{", "a", "}">>),
                CallPlan(1, <<"x">>, <<"{", "}">>)>>, "tool_calls"),
      Plan(0, <<CallPlan(0, <<"t">>, <<"{", "}">>),
                CallPlan(1, <<"t">>, <<"{", "a">>)>>, "tool_calls"),
      Plan(0, <<CallPlan(0, <<"t">>, <<"{", "a", "}">>)>>, "stop") }

\* tool-call deltas of a rich answer: none, one call at index 0, two calls
\* (the second possibly unknown, unnamed or with a text that does not
\* parse), or a single call at index 1
RichCalls ==
    {<<>>}
    \cup { <<CallPlan(0, n, a)>> : n \in WireNames, a \in ArgTexts }
    \cup { <<CallPlan(0, <<"t">>, <<"{", "a", "}">>), CallPlan(1, n, a)>> :
             n \in WireNames, a \in {<<"{", "}">>, <<"{", "a">>} }
    \cup { <<CallPlan(1, <<"t">>, <<"{", "}">>)>> }

FinishReasons == {"stop", "tool_calls", "length"}

RichPlans ==
    { Plan(c, calls, f) : c \in 0..MaxContent, calls \in RichCalls,
                          f \in FinishReasons }


---------------------------------------------------------------------------
(* Initial state: the arguments of the top-level call *)

Contexts ==
    { <<Message("system", <<"prompt">>), Message("user", <<"input">>)>> }

\* <<modelName, request.taskType>> of the complete calls tried: every
\* task type without override, and an override by the fallback model and
\* by another model
CompleteArgs ==
    { <<Null, t>> : t \in TaskTypes }
    \cup { <<fastModel, "undefined">>, <<reasoningModel, "fast">> }

\* the one plugin loaded when a run is followed step by step
RunPlugin == [name |-> "p", tools |-> <<Tool(<<"t">>, "p")>>]

\* a register, registerBuiltInTools or unloadAll call, with the entries
\* of its tools.set calls
Call(op, entries) == [op |-> op, entries |-> entries]

\* the PluginManager after register('p', RunPlugin); no other run
ManagerInit ==
    /\ registry = SetTools(<<>>, RunPlugin.tools, RunPlugin.name, 1)
    /\ registered =
          <<Call("register", Entries(RunPlugin.tools, RunPlugin.name))>>
    /\ execLog = <<>>
    /\ runs = <<>>

Init ==
    /\ caller \in {"execute", "complete"}
    /\ \E a \in IF caller = "complete" THEN CompleteArgs
                 ELSE { <<Null, t>> : t \in ExecuteTaskTypes } :
          /\ override = a[1]
          /\ taskType = a[2]
    /\ ctxMessages \in Contexts
    /\ pc = IF caller = "execute" THEN "loop" ELSE "call"
    /\ iterations = 0
    /\ messages = ctxMessages
    /\ responseText = <<>>
    /\ toolCalls = <<>>
    /\ tcIdx = 0
    /\ out = <<>>
    /\ client = <<>>
    /\ gw = "none"
    /\ model = ""
    /\ acc = <<>>
    /\ wire = NoWire
    /\ error = "none"
    /\ attempts = <<>>
    /\ gwOut = <<>>
    /\ gwCalls = 0
    /\ request = <<>>
    /\ prevRequest = <<>>
    /\ invoked = <<>>
    /\ stopAt = NoStop
    /\ JarvisIdle
    /\ env = Null
    /\ ManagerInit

---------------------------------------------------------------------------
(* AIGateway.stream *)

\* A top-level call stream(request, modelName): the frame's set-up
EnterStream(modelName) ==
    /\ model' = streamModel(modelName, taskType)
    /\ gw' = "create"
    /\ acc' = <<>>
    /\ wire' = NoWire
    /\ error' = "none"
    /\ attempts' = <<>>
    /\ gwOut' = <<>>

RichAllowed == caller = "complete" \/ iterations <= MaxRichTurns

\* the answers the endpoint may give to the call being made
Plans ==
    IF caller = "complete" THEN RichPlans
    ELSE IF RichAllowed THEN ExecutePlans
    ELSE PlainPlans

SetOutcome(o) == [attempts EXCEPT ![Len(attempts)].outcome = o]

\* await this.client.chat.completions.create(params) raises
CreateFails ==
    /\ gw = "create"
    /\ RichAllowed
    /\ attempts' = Append(attempts,
                          [model |-> model, outcome |-> "TransportError"])
    /\ error' = "TransportError"
    /\ gw' = "catch"
    /\ UNCHANGED <<inputVars, plannerVars, pc, responseText, toolCalls,
                   model, acc, wire, gwOut>>

\* ... or returns the response stream; let toolCalls = []
CreateStream ==
    /\ gw = "create"
    /\ \E plan \in Plans :
         wire' = [plan EXCEPT !.calls =
                    [k \in 1..Len(plan.calls) |->
                       [plan.calls[k] EXCEPT
                          !.id = <<gwCalls, Len(attempts) + 1,
                                   plan.calls[k].index>>]]]
    /\ attempts' = Append(attempts, [model |-> model, outcome |-> "running"])
    /\ acc' = <<>>
    /\ gw' = "reading"
    /\ UNCHANGED <<inputVars, plannerVars, pc, responseText, toolCalls,
                   model, error, gwOut>>

\* Mutant of DeliverContent: execute adds the content to its text but does
\* not yield the chunk
DeliverContentWithheld ==
    /\ gw = "reading"
    /\ ~wire.finished
    /\ wire.content > 0
    /\ wire' = [wire EXCEPT !.content = @ - 1]
    /\ LET chunk == Chunk("content", <<"c">>, <<>>, {}, NoId, model)
       IN  /\ gwOut' = Append(gwOut, chunk)
           /\ responseText' = responseText \o chunk.content
           /\ UNCHANGED <<out, client>>
    /\ UNCHANGED <<inputVars, pc, iterations, messages, toolCalls, tcIdx,
                   gw, model, acc, error, attempts, gwCalls, request,
                   prevRequest, invoked>>

\* A wire chunk with delta.content: stream yields a content chunk, which
\* its consumer adds to its text; execute also yields it to its caller.
DeliverContent ==
    /\ gw = "reading"
    /\ ~wire.finished
    /\ wire.content > 0
    /\ wire' = [wire EXCEPT !.content = @ - 1]
    /\ LET chunk == Chunk("content", <<"c">>, <<>>, {}, NoId, model)
       IN  /\ gwOut' = Append(gwOut, chunk)
           /\ responseText' = responseText \o chunk.content
           /\ IF caller = "execute" THEN Yield(chunk)
              ELSE Forward(<<chunk>>) /\ UNCHANGED out
    /\ UNCHANGED <<inputVars, pc, iterations, messages, toolCalls, tcIdx,
                   gw, model, acc, error, attempts, gwCalls, request,
                   prevRequest, invoked>>

\* A wire chunk with delta.tool_calls holding one delta: for the k-th call
\* of the response, the next n characters of its argument text; the first
\* delta of a call carries its id and name.
DeliverToolDelta ==
    /\ gw = "reading"
    /\ ~wire.finished
    /\ \E k \in 1..Len(wire.calls) :
         LET call == wire.calls[k]
         IN  \E n \in 0..Len(call.rest) :
               /\ ~call.sent \/ n > 0
               /\ acc' = ApplyDelta(acc,
                           [index |-> call.index,
                            id |-> IF call.sent THEN NoId ELSE call.id,
                            name |-> IF call.sent THEN <<>> ELSE call.name,
                            arguments |-> SubSeq(call.rest, 1, n)])
               /\ wire' = [wire EXCEPT
                             !.calls[k].rest =
                                 SubSeq(call.rest, n + 1, Len(call.rest)),
                             !.calls[k].sent = TRUE,
                             !.calls[k].frags = IF n > 0 THEN @ + 1 ELSE @]
    /\ UNCHANGED <<inputVars, plannerVars, pc, responseText, toolCalls,
                   gw, model, error, attempts, gwOut>>

WireDelivered ==
    /\ wire.content = 0
    /\ \A k \in 1..Len(wire.calls) :
          wire.calls[k].sent /\ wire.calls[k].rest = <<>>

\* Mutant of DeliverFinish: the consumer keeps only the tool_call chunks
\* of the latest response
DeliverFinishLatestOnly ==
    /\ gw = "reading"
    /\ ~wire.finished
    /\ WireDelivered
    /\ LET r == IF wire.finish = "tool_calls"
                THEN EmitToolCalls(acc, 1, model)
                ELSE [chunks |-> <<>>, err |-> "none"]
       IN  /\ gwOut' = gwOut \o r.chunks
           /\ toolCalls' = r.chunks
           /\ IF r.err = "none"
              THEN /\ wire' = [wire EXCEPT !.finished = TRUE]
                   /\ UNCHANGED <<gw, error, attempts>>
              ELSE /\ gw' = "catch"
                   /\ error' = r.err
                   /\ attempts' = SetOutcome(r.err)
                   /\ UNCHANGED wire
    /\ UNCHANGED <<inputVars, plannerVars, pc, responseText, model, acc>>

\* The last wire chunk, carrying finish_reason.  On 'tool_calls' the loop
\* over the accumulators yields tool_call chunks, which execute and
\* complete collect and Jarvis.process sends on, until it ends or raises.
DeliverFinish ==
    /\ gw = "reading"
    /\ ~wire.finished
    /\ WireDelivered
    /\ LET r == IF wire.finish = "tool_calls"
                THEN EmitToolCalls(acc, 1, model)
                ELSE [chunks |-> <<>>, err |-> "none"]
       IN  /\ gwOut' = gwOut \o r.chunks
           /\ toolCalls' = IF caller = "direct" THEN toolCalls
                           ELSE toolCalls \o r.chunks
           /\ Forward(r.chunks)
           /\ IF r.err = "none"
              THEN /\ wire' = [wire EXCEPT !.finished = TRUE]
                   /\ UNCHANGED <<gw, error, attempts>>
              ELSE /\ gw' = "catch"
                   /\ error' = r.err
                   /\ attempts' = SetOutcome(r.err)
                   /\ UNCHANGED wire
    /\ UNCHANGED <<inputVars, plannerLocals, pc, responseText, model, acc>>

\* The response stream raises (connection lost) while it is read
StreamRaises ==
    /\ gw = "reading"
    /\ RichAllowed
    /\ error' = "TransportError"
    /\ attempts' = SetOutcome("TransportError")
    /\ gw' = "catch"
    /\ UNCHANGED <<inputVars, plannerVars, pc, responseText, toolCalls,
                   model, acc, wire, gwOut>>

\* Mutant of DoneChunk: the done chunk names the model the request
\* selected, not the one in use
DoneChunkSelectedModel ==
    Chunk("done", <<>>, <<>>, {}, NoId, streamModel(override, taskType))

\* { type: 'done', model }
DoneChunk == Chunk("done", <<>>, <<>>, {}, NoId, model)

\* Mutant of StreamEnds: execute yields the done chunk of stream to its
\* caller as it does a content chunk
StreamEndsForwarded ==
    /\ gw = "reading"
    /\ wire.finished
    /\ gwOut' = Append(gwOut, DoneChunk)
    /\ IF caller = "execute" THEN Yield(DoneChunk)
       ELSE Forward(<<DoneChunk>>) /\ UNCHANGED out
    /\ attempts' = SetOutcome("completed")
    /\ gw' = "none"
    /\ pc' = IF caller = "execute" THEN "turnEnd" ELSE "returned"
    /\ UNCHANGED <<inputVars, iterations, messages, tcIdx, gwCalls, request,
                   prevRequest, invoked, responseText, toolCalls, model,
                   acc, wire, error>>

\* The response stream ends: yield { type: 'done', model }; the generator
\* returns and its consumer's for-await loop ends.
StreamEnds ==
    /\ gw = "reading"
    /\ wire.finished
    /\ gwOut' = Append(gwOut, DoneChunk)
    /\ Forward(<<DoneChunk>>)
    /\ attempts' = SetOutcome("completed")
    /\ gw' = "none"
    /\ pc' = IF caller = "execute" THEN "turnEnd" ELSE "returned"
    /\ UNCHANGED <<inputVars, plannerLocals, responseText, toolCalls, model,
                   acc, wire, error>>

\* Mutant of ShouldFallback: the fallback is tried after every failure
ShouldFallbackAlways == TRUE

\* Mutant of ShouldFallback: the comparison is inverted
ShouldFallbackInverted == model = fastModel

\* if (model !== config.ai.fastModel)
ShouldFallback == model # fastModel

\* catch (error): model !== config.ai.fastModel, so
\* yield* this.stream(request, config.ai.fastModel)
Fallback ==
    /\ gw = "catch"
    /\ ShouldFallback
    /\ model' = streamModel(fastModel, taskType)
    /\ gw' = "create"
    /\ acc' = <<>>
    /\ wire' = NoWire
    /\ UNCHANGED <<inputVars, plannerVars, pc, responseText, toolCalls,
                   error, attempts, gwOut>>

\* catch (error): the model is the fast model: throw error.  Neither
\* execute nor complete catches it.
Rethrow ==
    /\ gw = "catch"
    /\ ~ShouldFallback
    /\ gw' = "none"
    /\ pc' = "raised"
    /\ UNCHANGED <<inputVars, plannerVars, responseText, toolCalls, model,
                   acc, wire, error, attempts, gwOut>>


---------------------------------------------------------------------------
(* TaskPlanner.execute *)

gatewayVars == <<gw, model, acc, wire, error, attempts, gwOut>>

\* Mutant of LoopCondition: the bound tested with <=
LoopConditionOffByOne == iterations <= maxIterations

\* while (iterations < this.maxIterations)
LoopCondition == iterations < maxIterations

\* while (iterations < this.maxIterations) { iterations++; ...
\* this.gateway.stream({messages, tools, taskType})
StartTurn ==
    /\ caller = "execute"
    /\ pc = "loop"
    /\ LoopCondition
    /\ iterations' = iterations + 1
    /\ responseText' = <<>>
    /\ toolCalls' = <<>>
    /\ gwCalls' = gwCalls + 1
    /\ prevRequest' = request
    /\ request' = messages
    /\ EnterStream(Null)
    /\ pc' = "streaming"
    /\ UNCHANGED <<inputVars, messages, tcIdx, out, client, invoked>>

\* the loop condition fails: yield the warning chunk, return
CeilingWarning ==
    /\ caller = "execute"
    /\ pc = "loop"
    /\ ~LoopCondition
    /\ Yield(PlainChunk("warning"))
    /\ pc' = "warned"
    /\ UNCHANGED <<inputVars, iterations, messages, responseText, toolCalls,
                   tcIdx, gwCalls, request, prevRequest, invoked,
                   gatewayVars>>

\* Mutant of TurnEndDone: the done chunk is yielded but the return is
\* missing, so the loop goes on
TurnEndDoneNoReturn ==
    /\ pc = "turnEnd"
    /\ Len(toolCalls) = 0
    /\ Yield(PlainChunk("done"))
    /\ pc' = "loop"
    /\ UNCHANGED <<inputVars, iterations, messages, responseText, toolCalls,
                   tcIdx, gwCalls, request, prevRequest, invoked,
                   gatewayVars>>

\* if (toolCalls.length === 0) { yield { type: 'done' }; return; }
TurnEndDone ==
    /\ pc = "turnEnd"
    /\ Len(toolCalls) = 0
    /\ Yield(PlainChunk("done"))
    /\ pc' = "done"
    /\ UNCHANGED <<inputVars, iterations, messages, responseText, toolCalls,
                   tcIdx, gwCalls, request, prevRequest, invoked,
                   gatewayVars>>

\* Mutant of TurnEndTools: the history is cut back to the context before
\* the assistant message is pushed
TurnEndToolsTrimmed ==
    /\ pc = "turnEnd"
    /\ Len(toolCalls) # 0
    /\ Yield(PlainChunk("status"))
    /\ messages' = Append(ctxMessages,
                          AssistantMessage(responseText, toolCalls))
    /\ tcIdx' = 1
    /\ pc' = "tools"
    /\ UNCHANGED <<inputVars, iterations, responseText, toolCalls, gwCalls,
                   request, prevRequest, invoked, gatewayVars>>

\* yield status; messages.push(assistant message); start of the for loop
TurnEndTools ==
    /\ pc = "turnEnd"
    /\ Len(toolCalls) # 0
    /\ Yield(PlainChunk("status"))
    /\ messages' = Append(messages, AssistantMessage(responseText, toolCalls))
    /\ tcIdx' = 1
    /\ pc' = "tools"
    /\ UNCHANGED <<inputVars, iterations, responseText, toolCalls, gwCalls,
                   request, prevRequest, invoked, gatewayVars>>

\* Mutant of ToolStart: the tool_start chunks of all the calls of the turn
\* are yielded before the first invocation
ToolStartBatch ==
    /\ pc = "tools"
    /\ tcIdx <= Len(toolCalls)
    /\ out' = IF tcIdx = 1
              THEN out \o [k \in 1..Len(toolCalls) |->
                             Chunk("tool_start", <<>>, toolCalls[k].tool, {},
                                   NoId, "")]
              ELSE out
    /\ client' = client \o SubSeq(out', Len(out) + 1, Len(out'))
    /\ pc' = "invoking"
    /\ UNCHANGED <<inputVars, iterations, messages, responseText, toolCalls,
                   tcIdx, gwCalls, request, prevRequest, invoked,
                   gatewayVars>>

\* for (const tc of toolCalls): yield the tool_start chunk
ToolStart ==
    /\ pc = "tools"
    /\ tcIdx <= Len(toolCalls)
    /\ Yield(Chunk("tool_start", <<>>, toolCalls[tcIdx].tool, {},
                                NoId, ""))
    /\ pc' = "invoking"
    /\ UNCHANGED <<inputVars, iterations, messages, responseText, toolCalls,
                   tcIdx, gwCalls, request, prevRequest, invoked,
                   gatewayVars>>

\* how a registered tool may end: it returns a one-character string or
\* nothing, or it throws
ToolOutcomes ==
    {Returns(StringResult(<<"r">>)), Returns(Undefined),
     Throws(<<"tool failed">>)}

\* Mutant of ToolInvokeWith: a call whose invocation raised is invoked
\* again
ToolInvokeWithRetry(outcomes) ==
    /\ pc = "invoking"
    /\ \E outcome \in outcomes :
         LET tc == toolCalls[tcIdx]
             step == ToolStep(tc, outcome)
             res == PluginsExecute(tc.tool, outcome)
         IN  /\ invoked' = Append(invoked,
                             [id |-> tc.id, tool |-> tc.tool,
                              threw |-> res.threw, result |-> res.result])
             /\ Yield(step.chunk)
             /\ messages' = Append(messages, step.msg)
             /\ tcIdx' = IF res.threw THEN tcIdx ELSE tcIdx + 1
    /\ pc' = "tools"
    /\ UNCHANGED <<inputVars, iterations, responseText, toolCalls, gwCalls,
                   request, prevRequest, gatewayVars>>

\* Mutant of ToolInvokeWith: the failure of an invocation is reported but
\* then leaves execute
ToolInvokeWithNoCatch(outcomes) ==
    /\ pc = "invoking"
    /\ \E outcome \in outcomes :
         LET tc == toolCalls[tcIdx]
             step == ToolStep(tc, outcome)
             res == PluginsExecute(tc.tool, outcome)
         IN  /\ invoked' = Append(invoked,
                             [id |-> tc.id, tool |-> tc.tool,
                              threw |-> res.threw, result |-> res.result])
             /\ Yield(step.chunk)
             /\ messages' = Append(messages, step.msg)
             /\ pc' = IF res.threw THEN "raised" ELSE "tools"
    /\ tcIdx' = tcIdx + 1
    /\ UNCHANGED <<inputVars, iterations, responseText, toolCalls, gwCalls,
                   request, prevRequest, gatewayVars>>

\* await this.plugins.execute(tc.tool, tc.arguments), then the tool_result
\* chunk and message, or the catch block's tool_error chunk and message;
\* the tool ends in one of the given ways
ToolInvokeWith(outcomes) ==
    /\ pc = "invoking"
    /\ \E outcome \in outcomes :
         LET tc == toolCalls[tcIdx]
             step == ToolStep(tc, outcome)
             res == PluginsExecute(tc.tool, outcome)
         IN  /\ invoked' = Append(invoked,
                             [id |-> tc.id, tool |-> tc.tool,
                              threw |-> res.threw, result |-> res.result])
             /\ Yield(step.chunk)
             /\ messages' = Append(messages, step.msg)
    /\ tcIdx' = tcIdx + 1
    /\ pc' = "tools"
    /\ UNCHANGED <<inputVars, iterations, responseText, toolCalls, gwCalls,
                   request, prevRequest, gatewayVars>>

ToolInvoke ==
    ToolInvokeWith(IF RichAllowed THEN ToolOutcomes
                   ELSE {Returns(StringResult(<<"r">>))})

\* the for loop is over: yield { type: 'status', content: '\n' }
ToolsDone ==
    /\ pc = "tools"
    /\ tcIdx > Len(toolCalls)
    /\ Yield(PlainChunk("status"))
    /\ pc' = "loop"
    /\ UNCHANGED <<inputVars, iterations, messages, responseText, toolCalls,
                   tcIdx, gwCalls, request, prevRequest, invoked,
                   gatewayVars>>

---------------------------------------------------------------------------
(* AIGateway.complete *)

\* let result = ''; const toolCalls = [];
\* for await (const chunk of this.stream(request, modelName))
CompleteStart ==
    /\ caller = "complete"
    /\ pc = "call"
    /\ responseText' = <<>>
    /\ toolCalls' = <<>>
    /\ gwCalls' = gwCalls + 1
    /\ prevRequest' = request
    /\ request' = messages
    /\ EnterStream(override)
    /\ pc' = "draining"
    /\ UNCHANGED <<inputVars, iterations, messages, tcIdx, out, client, invoked>>

---------------------------------------------------------------------------

Next ==
    \/ StartTurn
    \/ CeilingWarning
    \/ CreateFails
    \/ CreateStream
    \/ DeliverContent
    \/ DeliverToolDelta
    \/ DeliverFinish
    \/ StreamRaises
    \/ StreamEnds
    \/ Fallback
    \/ Rethrow
    \/ TurnEndDone
    \/ TurnEndTools
    \/ ToolStart
    \/ ToolInvoke
    \/ ToolsDone
    \/ CompleteStart

Spec == Init /\ [][Next]_vars

---------------------------------------------------------------------------
(* The tool loop of one turn, for tool results of every length *)

\* the longest string a tool returns
MaxResultLen == 500

\* how the tool may end: a string of any length up to MaxResultLen, an
\* object, nothing, or a failure
FormatOutcomes ==
    { Returns(StringResult([i \in 1..n |-> "r"])) : n \in 0..MaxResultLen }
    \cup { Returns(ObjectResult({})), Returns(ObjectResult({"a"})),
           Returns(Undefined), Throws(<<"tool failed">>) }

\* The state of an execute run whose first Gateway call has returned with
\* one call of the registered tool
InitFormat ==
    LET id == <<1, 1, 0>>
        call == Chunk("tool_call", <<>>, <<"t">>, {}, id, defaultModel)
    IN  /\ env = Null
        /\ caller = "execute"
        /\ taskType = "undefined"
        /\ override = Null
        /\ ctxMessages \in Contexts
        /\ pc = "turnEnd"
        /\ iterations = 1
        /\ messages = ctxMessages
        /\ responseText = <<>>
        /\ toolCalls = <<call>>
        /\ tcIdx = 0
        /\ out = <<>>
        /\ client = <<>>
        /\ gw = "none"
        /\ model = defaultModel
        /\ acc = <<[hole |-> FALSE, id |-> id, name |-> <<"t">>,
                    arguments |-> <<>>]>>
        /\ wire = [content |-> 0,
                   calls |-> <<[index |-> 0, id |-> id, name |-> <<"t">>,
                                text |-> <<>>, rest |-> <<>>, sent |-> TRUE,
                                frags |-> 0]>>,
                   finish |-> "tool_calls", finished |-> TRUE]
        /\ error = "none"
        /\ attempts = <<[model |-> defaultModel, outcome |-> "completed"]>>
        /\ gwOut = <<call, Chunk("done", <<>>, <<>>, {}, NoId, defaultModel)>>
        /\ gwCalls = 1
        /\ request = ctxMessages
        /\ prevRequest = <<>>
        /\ invoked = <<>>
        /\ stopAt = NoStop
        /\ JarvisIdle
        /\ ManagerInit

ToolInvokeAny == ToolInvokeWith(FormatOutcomes)

NextFormat ==
    \/ TurnEndTools
    \/ ToolStart
    \/ ToolInvokeAny
    \/ ToolsDone

SpecFormat == InitFormat /\ [][NextFormat]_vars


---------------------------------------------------------------------------
(* PluginManager on its own: registrations and execute calls *)

\* register, registerBuiltInTools and unloadAll calls made at most
MaxRegistryOps == 3
\* execute calls made at most
MaxExecs == 2

\* plugins that may be registered: two tools; a tool of a name the first
\* plugin and the built-in tools have too; the same name twice
Plugins ==
    { [name |-> "web",
       tools |-> <<Tool(<<"web_search">>, "web"),
                   Tool(<<"browse_webpage">>, "web")>>],
      [name |-> "alt", tools |-> <<Tool(<<"web_search">>, "alt")>>],
      [name |-> "dup",
       tools |-> <<Tool(<<"calculate">>, "dup1"),
                   Tool(<<"calculate">>, "dup2")>>] }

ExecNames == {<<"web_search">>, <<"nope">>}
ExecArgs == {{}, {"a"}}
ExecOutcomes == {Returns(StringResult(<<"r">>)), Throws(<<"tool failed">>)}

\* no run of execute or complete is followed
NoRun ==
    /\ caller = "none"
    /\ taskType = "undefined"
    /\ override = Null
    /\ ctxMessages = <<>>
    /\ pc = "none"
    /\ iterations = 0
    /\ messages = <<>>
    /\ responseText = <<>>
    /\ toolCalls = <<>>
    /\ tcIdx = 0
    /\ out = <<>>
    /\ client = <<>>
    /\ gw = "none"
    /\ model = ""
    /\ acc = <<>>
    /\ wire = NoWire
    /\ error = "none"
    /\ attempts = <<>>
    /\ gwOut = <<>>
    /\ gwCalls = 0
    /\ request = <<>>
    /\ prevRequest = <<>>
    /\ invoked = <<>>
    /\ stopAt = NoStop
    /\ env = Null

\* the variables of the run followed step by step
callVars == <<caller, taskType, override, ctxMessages, pc, iterations,
              messages, responseText, toolCalls, tcIdx, out, client, gw,
              model, acc, wire, error, attempts, gwOut, gwCalls, request,
              prevRequest, invoked, stopAt, env>>

runVars == <<callVars, jarvisVars, memoryVars>>

\* constructor: this.tools = new Map()
InitRegistry ==
    /\ NoRun
    /\ JarvisIdle
    /\ registry = <<>>
    /\ registered = <<>>
    /\ execLog = <<>>
    /\ runs = <<>>

\* register(name, plugin)
Register ==
    /\ Len(registered) < MaxRegistryOps
    /\ \E p \in Plugins :
         /\ registry' = SetTools(registry, p.tools, p.name, 1)
         /\ registered' =
               Append(registered, Call("register", Entries(p.tools, p.name)))
    /\ UNCHANGED <<runVars, execLog, runs>>

\* registerBuiltInTools()
RegisterBuiltInTools ==
    /\ Len(registered) < MaxRegistryOps
    /\ registry' = SetTools(registry, BuiltInTools, "undefined", 1)
    /\ registered' =
          Append(registered,
                 Call("builtin", Entries(BuiltInTools, "undefined")))
    /\ UNCHANGED <<runVars, execLog, runs>>

\* unloadAll(): this.tools.clear()
UnloadAll ==
    /\ Len(registered) < MaxRegistryOps
    /\ registry' = <<>>
    /\ registered' = Append(registered, Call("unloadAll", <<>>))
    /\ UNCHANGED <<runVars, execLog, runs>>

\* execute(toolName, args) as its caller sees it: the calls it made of
\* tool functions, each with its arguments and how it ended, and how
\* execute itself ended
ManagerExecute(toolName, args, outcome) ==
    [name |-> toolName,
     args |-> args,
     calls |-> IF MapHas(registry, toolName)
               THEN <<[fn |-> MapGet(registry, toolName).execute,
                       args |-> args, outcome |-> outcome]>>
               ELSE <<>>,
     outcome |-> PluginsExecute(toolName, outcome)]

\* a call of execute, the tool function (if one is called) ending in one
\* of ExecOutcomes
Execute ==
    /\ Len(execLog) < MaxExecs
    /\ \E name \in ExecNames, args \in ExecArgs, outcome \in ExecOutcomes :
         execLog' = Append(execLog, ManagerExecute(name, args, outcome))
    /\ UNCHANGED <<runVars, registry, registered, runs>>

NextRegistry ==
    \/ Register
    \/ RegisterBuiltInTools
    \/ UnloadAll
    \/ Execute

SpecRegistry == InitRegistry /\ [][NextRegistry]_vars

---------------------------------------------------------------------------
(* Execute runs on one planner, one gateway and one PluginManager: two   *)
(* runs interleaved (SpecRuns), and one run while the registry is        *)
(* changed (SpecLive).  A run is followed from one suspension point to   *)
(* the next; what a Gateway.stream call yields and the chunks a run      *)
(* yields are followed in Spec, here a stream call is its result: the    *)
(* tool_call chunks collected, or the error raised.                      *)

RunIds == {1, 2}

RunInputs == <<"input 1", "input 2">>

\* context.messages of the run
RunContext(r) ==
    <<Message("system", <<"prompt">>), Message("user", <<RunInputs[r]>>)>>

\* the locals of a run, and context.tools
IdleRun ==
    [pc |-> "idle", iterations |-> 0, messages |-> <<>>, toolCalls |-> <<>>,
     tcIdx |-> 0, gwCalls |-> 0, request |-> <<>>, tools |-> <<>>,
     toolsSeen |-> {}]

\* how the function of a registered tool ends: that of plugin "alt"
\* throws, the others return a string
FnOutcome(name) ==
    IF MapHas(registry, name) /\ MapGet(registry, name).execute = "alt"
    THEN Throws(<<"tool failed">>)
    ELSE Returns(StringResult(<<"r">>))

\* PluginManager.initialize: the plugin "web", then the built-in tools;
\* the runs with the given ids have not begun
InitOf(ids) ==
    /\ NoRun
    /\ JarvisIdle
    /\ LET web == CHOOSE p \in Plugins : p.name = "web"
       IN  /\ registry = SetTools(SetTools(<<>>, web.tools, web.name, 1),
                                  BuiltInTools, "undefined", 1)
           /\ registered =
                 <<Call("register", Entries(web.tools, web.name)),
                   Call("builtin", Entries(BuiltInTools, "undefined"))>>
    /\ execLog = <<>>
    /\ runs = [r \in ids |-> IdleRun]

InitRuns == InitOf(RunIds)

InitLive == InitOf({1})

\* Jarvis.buildContext: tools: this.plugins.getToolDefinitions(); then
\* execute: let iterations = 0; let messages = [...context.messages]
RunBegin(r) ==
    /\ runs[r].pc = "idle"
    /\ runs' = [runs EXCEPT ![r] =
                  [IdleRun EXCEPT !.pc = "loop",
                                  !.messages = RunContext(r),
                                  !.tools = getToolDefinitions(registry)]]
    /\ UNCHANGED <<runVars, registry, registered, execLog>>

\* Mutant of RequestTools: the definitions are read from the registry at
\* every call
RequestToolsLive(r) == getToolDefinitions(registry)

\* tools: context.tools
RequestTools(r) == runs[r].tools

\* iterations++; this.gateway.stream({messages, tools, taskType})
RunStartTurn(r) ==
    /\ runs[r].pc = "loop"
    /\ runs[r].iterations < maxIterations
    /\ runs' = [runs EXCEPT ![r].iterations = @ + 1,
                            ![r].gwCalls = @ + 1,
                            ![r].request = runs[r].messages,
                            ![r].toolsSeen = @ \cup {RequestTools(r)},
                            ![r].toolCalls = <<>>,
                            ![r].pc = "streaming"]
    /\ UNCHANGED <<runVars, registry, registered, execLog>>

\* the loop condition fails: the warning chunk
RunCeiling(r) ==
    /\ runs[r].pc = "loop"
    /\ ~(runs[r].iterations < maxIterations)
    /\ runs' = [runs EXCEPT ![r].pc = "warned"]
    /\ UNCHANGED <<runVars, registry, registered, execLog>>

\* the stream call returns, having yielded no tool_call chunk or one
RunStreamReturns(r) ==
    /\ runs[r].pc = "streaming"
    /\ \E calls \in
           {<<>>, <<Chunk("tool_call", <<>>, <<"web_search">>, {},
                          <<r, runs[r].gwCalls, 0>>, defaultModel)>>} :
         runs' = [runs EXCEPT ![r].toolCalls = calls, ![r].pc = "turnEnd"]
    /\ UNCHANGED <<runVars, registry, registered, execLog>>

\* the stream call raises
RunStreamRaises(r) ==
    /\ runs[r].pc = "streaming"
    /\ runs' = [runs EXCEPT ![r].pc = "raised"]
    /\ UNCHANGED <<runVars, registry, registered, execLog>>

\* Mutant of RunPush: the message sequence is kept on the planner and
\* shared by its runs
RunPushShared(rs, r, m) ==
    [q \in DOMAIN rs |-> [rs[q] EXCEPT !.messages = Append(@, m)]]

\* messages.push(m) on the let messages of run r
RunPush(rs, r, m) == [rs EXCEPT ![r].messages = Append(@, m)]

\* no tool call: done, return; else push the assistant message
RunTurnEnd(r) ==
    /\ runs[r].pc = "turnEnd"
    /\ IF runs[r].toolCalls = <<>>
       THEN runs' = [runs EXCEPT ![r].pc = "done"]
       ELSE runs' = [RunPush(runs, r,
                             AssistantMessage(<<>>, runs[r].toolCalls))
                       EXCEPT ![r].tcIdx = 1, ![r].pc = "tools"]
    /\ UNCHANGED <<runVars, registry, registered, execLog>>

\* one tool call of the loop: await this.plugins.execute, push the tool
\* message
RunToolInvoke(r) ==
    /\ runs[r].pc = "tools"
    /\ runs[r].tcIdx <= Len(runs[r].toolCalls)
    /\ LET tc == runs[r].toolCalls[runs[r].tcIdx]
           step == ToolStep(tc, FnOutcome(tc.tool))
       IN  runs' = [RunPush(runs, r, step.msg) EXCEPT ![r].tcIdx = @ + 1]
    /\ UNCHANGED <<runVars, registry, registered, execLog>>

\* the for loop is over
RunToolsDone(r) ==
    /\ runs[r].pc = "tools"
    /\ runs[r].tcIdx > Len(runs[r].toolCalls)
    /\ runs' = [runs EXCEPT ![r].pc = "loop"]
    /\ UNCHANGED <<runVars, registry, registered, execLog>>

NextRuns ==
    \/ \E r \in DOMAIN runs : RunBegin(r)
    \/ \E r \in DOMAIN runs : RunStartTurn(r)
    \/ \E r \in DOMAIN runs : RunCeiling(r)
    \/ \E r \in DOMAIN runs : RunStreamReturns(r)
    \/ \E r \in DOMAIN runs : RunStreamRaises(r)
    \/ \E r \in DOMAIN runs : RunTurnEnd(r)
    \/ \E r \in DOMAIN runs : RunToolInvoke(r)
    \/ \E r \in DOMAIN runs : RunToolsDone(r)

NextLive ==
    \/ NextRuns
    \/ Register
    \/ RegisterBuiltInTools
    \/ UnloadAll

SpecRuns == InitRuns /\ [][NextRuns]_vars

SpecLive == InitLive /\ [][NextLive]_vars

---------------------------------------------------------------------------
(* An execute run whose consumer stops iterating.  execute and stream are *)
(* async generators: their code runs only while the consumer awaits the   *)
(* next chunk, and each yield suspends them until the consumer asks for   *)
(* another.  The consumer iterates to the end, or it takes stopAt chunks  *)
(* and then leaves its loop, which calls return() on the generator.       *)

\* the most chunks a consumer takes before it stops
MaxStop == 5

\* Mutant of Consuming: the run is driven on whether or not the consumer
\* asks for a chunk
ConsumingAlways == TRUE

\* the consumer has asked for a chunk it has not been given yet
Consuming == stopAt = NoStop \/ Len(client) < stopAt

InitCancel ==
    /\ caller = "execute"
    /\ taskType \in ExecuteTaskTypes
    /\ override = Null
    /\ ctxMessages \in Contexts
    /\ pc = "loop"
    /\ iterations = 0
    /\ messages = ctxMessages
    /\ responseText = <<>>
    /\ toolCalls = <<>>
    /\ tcIdx = 0
    /\ out = <<>>
    /\ client = <<>>
    /\ gw = "none"
    /\ model = ""
    /\ acc = <<>>
    /\ wire = NoWire
    /\ error = "none"
    /\ attempts = <<>>
    /\ gwOut = <<>>
    /\ gwCalls = 0
    /\ request = <<>>
    /\ prevRequest = <<>>
    /\ invoked = <<>>
    /\ stopAt \in {NoStop} \cup 1..MaxStop
    /\ JarvisIdle
    /\ env = Null
    /\ ManagerInit

\* the consumer leaves its for-await loop: return() ends execute at the
\* yield it is suspended at, and with it the stream generator it iterates
ConsumerReturns ==
    /\ ~Consuming
    /\ pc \notin {"done", "warned", "raised", "closed"}
    /\ pc' = "closed"
    /\ gw' = "none"
    /\ UNCHANGED <<inputVars, plannerVars, responseText, toolCalls, model,
                   acc, wire, error, attempts, gwOut>>

NextCancel ==
    \/ Consuming /\ StartTurn
    \/ Consuming /\ CeilingWarning
    \/ Consuming /\ CreateFails
    \/ Consuming /\ CreateStream
    \/ Consuming /\ DeliverContent
    \/ Consuming /\ DeliverToolDelta
    \/ Consuming /\ DeliverFinish
    \/ Consuming /\ StreamRaises
    \/ Consuming /\ StreamEnds
    \/ Consuming /\ Fallback
    \/ Consuming /\ Rethrow
    \/ Consuming /\ TurnEndDone
    \/ Consuming /\ TurnEndTools
    \/ Consuming /\ ToolStart
    \/ Consuming /\ ToolInvoke
    \/ Consuming /\ ToolsDone
    \/ ConsumerReturns

SpecCancel == InitCancel /\ [][NextCancel]_vars

---------------------------------------------------------------------------
(* Model selection: the first step of a stream call, for every override,  *)
(* task type and DEFAULT_MODEL setting tried                               *)

SelectOverrides == {Null, "", fastModel, reasoningModel, "custom-model"}

SelectTaskTypes ==
    {"undefined", "", "general", "reasoning", "coding", "vision", "fast",
     "bogus", "constructor"}

SelectEnvs == {Null, "mixtral-8x7b-32768"}

\* complete(request, modelName) is about to be called
InitSelect ==
    /\ caller = "complete"
    /\ taskType \in SelectTaskTypes
    /\ override \in SelectOverrides
    /\ ctxMessages \in Contexts
    /\ pc = "call"
    /\ iterations = 0
    /\ messages = ctxMessages
    /\ responseText = <<>>
    /\ toolCalls = <<>>
    /\ tcIdx = 0
    /\ out = <<>>
    /\ client = <<>>
    /\ gw = "none"
    /\ model = ""
    /\ acc = <<>>
    /\ wire = NoWire
    /\ error = "none"
    /\ attempts = <<>>
    /\ gwOut = <<>>
    /\ gwCalls = 0
    /\ request = <<>>
    /\ prevRequest = <<>>
    /\ invoked = <<>>
    /\ stopAt = NoStop
    /\ JarvisIdle
    /\ env \in SelectEnvs
    /\ ManagerInit

NextSelect == CompleteStart

SpecSelect == InitSelect /\ [][NextSelect]_vars

---------------------------------------------------------------------------
(* Jarvis.process on an input for which shouldUseTools is false: the      *)
(* chunks of one Gateway.stream call go to the caller as they are         *)

\* process(input, context), at "for await (const chunk of
\* this.gateway.stream(fullContext))": fullContext holds messages, tools
\* and context, and no taskType
InitDirect ==
    /\ caller = "direct"
    /\ taskType = "undefined"
    /\ override = Null
    /\ ctxMessages \in Contexts
    /\ pc = "call"
    /\ iterations = 0
    /\ messages = ctxMessages
    /\ responseText = <<>>
    /\ toolCalls = <<>>
    /\ tcIdx = 0
    /\ out = <<>>
    /\ client = <<>>
    /\ gw = "none"
    /\ model = ""
    /\ acc = <<>>
    /\ wire = NoWire
    /\ error = "none"
    /\ attempts = <<>>
    /\ gwOut = <<>>
    /\ gwCalls = 0
    /\ request = <<>>
    /\ prevRequest = <<>>
    /\ invoked = <<>>
    /\ stopAt = NoStop
    /\ JarvisIdle
    /\ env = Null
    /\ ManagerInit

\* let response = ''; this.gateway.stream(fullContext)
DirectStart ==
    /\ caller = "direct"
    /\ pc = "call"
    /\ responseText' = <<>>
    /\ gwCalls' = gwCalls + 1
    /\ prevRequest' = request
    /\ request' = messages
    /\ EnterStream(Null)
    /\ pc' = "draining"
    /\ UNCHANGED <<inputVars, iterations, messages, toolCalls, tcIdx, out,
                   client, invoked>>

\* catch (error): yield { type: 'error', content: ... }
ProcessCatch ==
    /\ caller = "direct"
    /\ pc = "raised"
    /\ client' = Append(client, PlainChunk("error"))
    /\ pc' = "failed"
    /\ UNCHANGED <<inputVars, plannerLocals, responseText, toolCalls,
                   gatewayVars>>

NextDirect ==
    \/ DirectStart
    \/ CreateFails
    \/ CreateStream
    \/ DeliverContent
    \/ DeliverToolDelta
    \/ DeliverFinish
    \/ StreamRaises
    \/ StreamEnds
    \/ Fallback
    \/ Rethrow
    \/ ProcessCatch

SpecDirect == InitDirect /\ [][NextDirect]_vars

---------------------------------------------------------------------------
(* The reading of one response whose tool-call deltas carry the name of a *)
(* call in one or several fragments                                        *)

\* the name "get" as the endpoint may cut it into the deltas of a call
NameSplits ==
    { << <<"g", "e", "t">> >>,
      << <<"g">>, <<"e", "t">> >>,
      << <<"g", "e">>, <<"t">> >>,
      << <<"g">>, <<"e">>, <<"t">> >> }

\* the deltas of the call at index i: each starts with a fragment of the
\* name; the argument text goes with the first
NameDeltas(i, split, args) ==
    [k \in 1..Len(split) |->
       [CallPlan(i, split[k], IF k = 1 THEN args ELSE <<>>)
          EXCEPT !.id = <<1, 1, i>>]]

\* responses with one call, or two, named in fragments
NamePlans ==
    { Plan(0, NameDeltas(0, sp, a), "tool_calls") :
        sp \in NameSplits, a \in {<<>>, <<"{", "}">>, <<"{", "a", "}">>} }
    \cup
    { Plan(0, NameDeltas(0, sp, <<"{", "}">>) \o NameDeltas(1, sq, <<>>),
           "tool_calls") :
        sp \in NameSplits, sq \in NameSplits }

\* complete has called stream, whose endpoint call has returned the
\* response stream
InitNames ==
    /\ env = Null
    /\ caller = "complete"
    /\ taskType = "undefined"
    /\ override = Null
    /\ ctxMessages \in Contexts
    /\ pc = "draining"
    /\ iterations = 0
    /\ messages = ctxMessages
    /\ responseText = <<>>
    /\ toolCalls = <<>>
    /\ tcIdx = 0
    /\ out = <<>>
    /\ client = <<>>
    /\ gw = "reading"
    /\ model = defaultModel
    /\ acc = <<>>
    /\ wire \in NamePlans
    /\ error = "none"
    /\ attempts = <<[model |-> defaultModel, outcome |-> "running"]>>
    /\ gwOut = <<>>
    /\ gwCalls = 1
    /\ request = ctxMessages
    /\ prevRequest = <<>>
    /\ invoked = <<>>
    /\ stopAt = NoStop
    /\ JarvisIdle
    /\ ManagerInit

\* the deltas of the response that have gone out are its first ones
SentInOrder ==
    \A k \in 1..Len(wire.calls) :
       wire.calls[k].sent => \A j \in 1..(k - 1) : wire.calls[j].sent

\* a tool-call delta arrives, in the order the endpoint sent them
DeliverDeltaInOrder == DeliverToolDelta /\ SentInOrder'

NextNames ==
    \/ DeliverDeltaInOrder
    \/ DeliverFinish
    \/ StreamEnds

SpecNames == InitNames /\ [][NextNames]_vars

---------------------------------------------------------------------------
(* PluginManager.initialize: the enabled plugins, then the built-in tools *)

\* the tools array a plugin module exports, by the names of its tools
ToolsOf(plugin, names) ==
    [k \in 1..Len(names) |-> Tool(names[k], plugin)]

\* config.plugins.enabled, in its order, each with the tools of its
\* index.js
EnabledPlugins ==
    << [name |-> "system",
        tools |-> ToolsOf("system",
           << <<"open_application">>, <<"quit_application">>,
              <<"list_running_apps">>, <<"set_volume">>, <<"mute_unmute">>,
              <<"set_brightness">>, <<"toggle_dark_mode">>,
              <<"lock_screen">>, <<"sleep_computer">>,
              <<"show_notification">>, <<"speak_text">>, <<"open_url">>,
              <<"get_browser_url">>, <<"media_control">>, <<"open_folder">>,
              <<"empty_trash">>, <<"get_system_info">>,
              <<"get_wifi_network">> >>)],
       [name |-> "web",
        tools |-> ToolsOf("web",
           << <<"web_search">>, <<"browse_webpage">>, <<"fill_form">>,
              <<"click_element">>, <<"screenshot_webpage">>,
              <<"research_topic">> >>)],
       [name |-> "files",
        tools |-> ToolsOf("files",
           << <<"create_folder">>, <<"move_file">>, <<"copy_file">>,
              <<"delete_file">>, <<"get_file_info">>,
              <<"find_large_files">>, <<"compress_files">>,
              <<"extract_archive">> >>)],
       [name |-> "vision",
        tools |-> ToolsOf("vision",
           << <<"take_screenshot">>, <<"read_screen_text">> >>)],
       [name |-> "code",
        tools |-> ToolsOf("code",
           << <<"run_python">>, <<"run_javascript">>, <<"run_shell">>,
              <<"install_package">>, <<"read_file">>, <<"write_file">>,
              <<"list_directory">>, <<"search_files">> >>)] >>

\* the register and registerBuiltInTools calls the loop over
\* config.plugins.enabled has made from the k-th plugin on; `loads` are
\* the plugins whose index.js exists and imports
RECURSIVE LoadCalls(_, _)
LoadCalls(loads, k) ==
    IF k > Len(EnabledPlugins) THEN <<>>
    ELSE (IF k \in loads
          THEN <<Call("register", Entries(EnabledPlugins[k].tools,
                                          EnabledPlugins[k].name))>>
          ELSE <<>>)
         \o LoadCalls(loads, k + 1)

BuiltInCall == Call("builtin", Entries(BuiltInTools, "undefined"))

\* Mutant of InitializeCalls: the built-in tools are registered before
\* the enabled plugins
InitializeCallsBuiltInsFirst(dirExists, loads) ==
    IF ~dirExists THEN <<BuiltInCall>>
    ELSE <<BuiltInCall>> \o LoadCalls(loads, 1)

\* initialize(): without a plugins directory the built-in tools only;
\* else each enabled plugin that loads is registered, and then the
\* built-in tools
InitializeCalls(dirExists, loads) ==
    IF ~dirExists THEN <<BuiltInCall>>
    ELSE LoadCalls(loads, 1) \o <<BuiltInCall>>

\* the tools.set calls of those register and registerBuiltInTools calls,
\* made in order on the Map, from the k-th call on
RECURSIVE ApplyCalls(_, _, _)
ApplyCalls(map, calls, k) ==
    IF k > Len(calls) THEN map
    ELSE ApplyCalls(SetEntries(map, calls[k].entries, 1), calls, k + 1)

\* initialize() on the PluginManager just constructed
Initialize ==
    /\ registered = <<>>
    /\ \E dirExists \in BOOLEAN, loads \in SUBSET (1..Len(EnabledPlugins)) :
         LET calls == InitializeCalls(dirExists, loads)
         IN  /\ registry' = ApplyCalls(registry, calls, 1)
             /\ registered' = calls
    /\ UNCHANGED <<runVars, execLog, runs>>

\* execute(toolName, args) once initialize has returned
ExecuteInitialized ==
    /\ registered # <<>>
    /\ Execute

NextBoot ==
    \/ Initialize
    \/ ExecuteInitialized

SpecBoot == InitRegistry /\ [][NextBoot]_vars

---------------------------------------------------------------------------
(* SemanticMemory: store, recall and extractKeywords.  A text is the     *)
(* sequence of its characters.                                           *)

Cat == <<"c", "a", "t">>
Dog == <<"d", "o", "g">>
The == <<"t", "h", "e">>
Space == <<" ">>

\* String.prototype.toLowerCase, on the letters texts are made of here
LowerCase(c) ==
    IF c = "C" THEN "c" ELSE IF c = "D" THEN "d" ELSE c

toLowerCase(text) == [i \in 1..Len(text) |-> LowerCase(text[i])]

\* the classes \w and \s of a regular expression, on those characters
WordCharacters ==
    {"a", "c", "d", "e", "g", "h", "n", "o", "r", "t", "u", "C", "D", "_",
     "1", "2", "3", "4"}
WhiteSpace == {" ", "\n"}

\* replace(/[^\w\s]/g, ' ')
ReplacePunctuation(text) ==
    [i \in 1..Len(text) |->
       IF text[i] \in WordCharacters \cup WhiteSpace THEN text[i] ELSE " "]

\* split(/\s+/) from the i-th character on, `word` being the characters
\* read since the last run of white space: a text that begins or ends
\* with white space gives an empty first or last word
RECURSIVE SplitFrom(_, _, _)
SplitFrom(text, i, word) ==
    IF i > Len(text) THEN <<word>>
    ELSE IF text[i] \in WhiteSpace
         THEN IF i > 1 /\ text[i - 1] \in WhiteSpace
              THEN SplitFrom(text, i + 1, word)
              ELSE <<word>> \o SplitFrom(text, i + 1, <<>>)
         ELSE SplitFrom(text, i + 1, Append(word, text[i]))

\* const stopWords: those of its words that the characters above spell
stopWords ==
    { The, <<"a">>, <<"h", "a", "d">>, <<"d", "o">>, <<"t", "o">>,
      <<"a", "t">>, <<"t", "h", "a", "t">>, <<"h", "e">> }

\* slice(0, 20)
KeywordLimit == 20

\* Array.prototype.slice(from, to) with 0 <= from; a negative `to` counts
\* from the end
Slice(seq, from, to) ==
    LET end == IF to < 0 THEN Len(seq) + to
               ELSE IF to > Len(seq) THEN Len(seq) ELSE to
    IN  IF from >= end THEN <<>> ELSE SubSeq(seq, from + 1, end)

\* Array.prototype.slice(-n): the last n elements; slice(-0) is slice(0),
\* the whole array, and slice(n) for n > 0 drops the first n elements
SliceLast(seq, n) ==
    IF n > 0
    THEN IF n >= Len(seq) THEN seq ELSE SubSeq(seq, Len(seq) - n + 1, Len(seq))
    ELSE Slice(seq, 0 - n, Len(seq))

\* extractKeywords(text)
extractKeywords(text) ==
    Slice(SelectSeq(SplitFrom(ReplacePunctuation(toLowerCase(text)), 1, <<>>),
                    LAMBDA word : Len(word) > 2 /\ word \notin stopWords),
          0, KeywordLimit)

\* if (this.memories.length > 1000) ... slice(-1000)
MemoryLimit == 1000

\* the entry store pushes; createdAt is the time in milliseconds
Memory(input, response, now) ==
    [input |-> input,
     response |-> response,
     keywords |-> extractKeywords(input \o Space \o response),
     createdAt |-> now]

\* store: this.memories after the push and the slice(-1000)
StoreMemories(mems, input, response, now) ==
    LET pushed == Append(mems, Memory(input, response, now))
    IN  IF Len(pushed) > MemoryLimit THEN SliceLast(pushed, MemoryLimit)
        ELSE pushed

\* store: this.size++
StoreSize(n) == n + 1

\* { content: `Q: ${m.input}\nA: ${m.response}`, timestamp: m.createdAt }
Summary(m) ==
    [content |-> <<"Q", ":", " ">> \o m.input \o <<"\n", "A", ":", " ">>
                 \o m.response,
     timestamp |-> m.createdAt]

\* queryKeywords.filter(k => m.keywords.includes(k)).length
Score(queryKeywords, m) ==
    Len(SelectSeq(queryKeywords,
                  LAMBDA k : \E j \in 1..Len(m.keywords) : m.keywords[j] = k))

\* scored.sort(...): a (before b) when the score of a is higher, or the
\* scores are equal and a was created later; the sort is stable, so that
\* of two entries the comparison calls equal the earlier stays first
Before(scored, i, j) ==
    \/ scored[i].score > scored[j].score
    \/ /\ scored[i].score = scored[j].score
       /\ \/ scored[i].memory.createdAt > scored[j].memory.createdAt
          \/ /\ scored[i].memory.createdAt = scored[j].memory.createdAt
             /\ i < j

Sort(scored) ==
    LET rank(i) == 1 + Cardinality({j \in 1..Len(scored) : Before(scored, j, i)})
    IN  [r \in 1..Len(scored) |->
           scored[CHOOSE i \in 1..Len(scored) : rank(i) = r]]

\* recall(query, limit = 5): `rest` are the arguments after the query,
\* and the default applies when there is none
DefaultLimit == 5

LimitOf(rest) == IF rest = <<>> THEN DefaultLimit ELSE rest[1]

recall(mems, query, rest) ==
    LET limit == LimitOf(rest)
        queryKeywords == extractKeywords(query)
        scored == [i \in 1..Len(mems) |->
                     [memory |-> mems[i],
                      score |-> Score(queryKeywords, mems[i])]]
        top == Slice(Sort(scored), 0, limit)
        hits == SelectSeq(top, LAMBDA s : s.score > 0)
        recent == SliceLast(mems, limit)
    IN  IF Len(queryKeywords) = 0
        THEN [i \in 1..Len(recent) |-> Summary(recent[Len(recent) + 1 - i])]
        ELSE [i \in 1..Len(hits) |-> Summary(hits[i].memory)]

\* store calls made at most on their own
MaxStores == 2

\* texts stored and asked for: none, a stop word, a keyword, one in
\* capitals, a keyword twice, two keywords, punctuation, white space
StoreInputs == {Cat, Dog \o <<"!">>, <<"C", "a", "t">> \o Space \o Dog}
StoreResponses == {<<>>, The \o Space \o Dog}
Queries ==
    {<<>>, The, Cat, Cat \o Space \o Cat, Dog \o Space \o Space \o Cat,
     Space \o <<"D", "o", "g">>}
Limits == {<<>>, <<0>>, <<1>>, <<2>>}

\* initialize(): the memories of the file the store last saved, if there
\* is one, and this.size = this.memories.length
LoadedLengths == {0, MemoryLimit - 1, MemoryLimit}

Loaded(n) == [i \in 1..n |-> Memory(Cat, <<>>, 0)]

MemoryInit(lengths) ==
    /\ NoRun
    /\ ManagerInit
    /\ status = "none"
    /\ currentContext = <<>>
    /\ procs = <<>>
    /\ \E n \in lengths :
          /\ memories = Loaded(n)
          /\ size = Len(memories)
    /\ clock = 0
    /\ memCalls = [stores |-> 0, recalled |-> <<>>]

InitStore == MemoryInit(LoadedLengths)

InitRecall == MemoryInit({0})

\* store({input, response, context, sessionId}), in the millisecond of
\* the call before or in the next
Store ==
    /\ memCalls.stores < MaxStores
    /\ \E input \in StoreInputs, response \in StoreResponses, t \in {0, 1} :
         /\ clock' = clock + t
         /\ memories' = StoreMemories(memories, input, response, clock')
    /\ size' = StoreSize(size)
    /\ memCalls' = [memCalls EXCEPT !.stores = @ + 1]
    /\ UNCHANGED <<callVars, managerVars, jarvisVars>>

\* recall(query) or recall(query, limit): the call, this.memories as the
\* call found it, and what the call returned
Recall ==
    /\ \E query \in Queries, rest \in Limits :
         memCalls' = [memCalls EXCEPT !.recalled =
                        <<[query |-> query, rest |-> rest,
                           memories |-> memories,
                           result |-> recall(memories, query, rest)]>>]
    /\ UNCHANGED <<callVars, managerVars, jarvisVars, memories, size, clock>>

NextStore == Store

SpecStore == InitStore /\ [][NextStore]_vars

NextRecall ==
    \/ Store
    \/ Recall

SpecRecall == InitRecall /\ [][NextRecall]_vars

---------------------------------------------------------------------------
(* Jarvis.process: the calls the socket handlers make on the one Jarvis  *)
(* of getJarvis().  A call runs from one await or yield to the next      *)
(* without another call running in between; its consumer, the for await  *)
(* loop of the handler, asks for the next chunk as soon as it has        *)
(* emitted the one before.                                               *)

\* process calls made at most
MaxCalls == 2

Calls == 1..MaxCalls

\* what tells the texts of one call from those of another
CallTag(p) == <<"1", "2", "3", "4">>[p]

Run == <<"r", "u", "n">>

\* the input of call p: a question, or one that asks to run something
InputOf(p, tools) ==
    (IF tools THEN Run \o Space ELSE <<>>) \o Cat \o <<CallTag(p)>>

\* shouldUseTools(input): /open|launch|start|run|execute/i is the one
\* pattern those inputs can match
shouldUseTools(input) ==
    \E i \in 1..Len(input) :
       i + 2 <= Len(input) /\ SubSeq(input, i, i + 2) = Run

ProcessChunk(type, content) == [type |-> type, content |-> content]

\* what the planner (needsTools) or the gateway stream yields to call p
\* when nothing fails: the answer in a content chunk, on the planner
\* path after the chunk of a tool that failed, and the done chunk, which
\* has no content
StreamOf(p, needsTools) ==
    (IF needsTools
     THEN <<ProcessChunk("tool_error", <<"e", CallTag(p)>>)>>
     ELSE <<>>)
    \o <<ProcessChunk("content", <<"r", CallTag(p)>>),
         ProcessChunk("done", <<>>)>>

\* { type: 'error', content: `I encountered an error: ${error.message}` }
ErrorChunk(origin) ==
    ProcessChunk("error", <<"I encountered an error: ", origin>>)

\* a call that has not begun
IdleCall ==
    [pc |-> "idle", input |-> <<>>, response |-> <<>>, chunks |-> <<>>,
     next |-> 1, outcome |-> "none", origin |-> "none", stores |-> 0]

\* initialize() has returned: this.status = 'ready'; an empty memory
InitJarvis ==
    /\ NoRun
    /\ ManagerInit
    /\ status = "ready"
    /\ currentContext = <<>>
    /\ procs = [p \in Calls |-> IdleCall]
    /\ memories = <<>>
    /\ size = 0
    /\ clock = 0
    /\ memCalls = [stores |-> 0, recalled |-> <<>>]

\* a call has begun and has neither completed nor failed
InProgress(p) == procs[p].pc \notin {"idle", "completed", "failed", "raised"}

\* process, from its first line to "await this.memory.recall(input)":
\* recall has run, and its promise is fulfilled or rejected (an input
\* that is not a string, a loaded memory without keywords)
ProcessBegin(p) ==
    /\ procs[p].pc = "idle"
    /\ \E tools \in BOOLEAN, outcome \in {"ok", "throws"} :
         /\ procs' = [procs EXCEPT ![p] =
                        [@ EXCEPT !.pc = "recalling",
                                  !.input = InputOf(p, tools),
                                  !.outcome = outcome]]
         /\ currentContext' =
               Append(currentContext,
                      [role |-> "user", content |-> InputOf(p, tools)])
    /\ status' = "thinking"
    /\ UNCHANGED <<callVars, managerVars, memoryVars>>

\* Mutant of Caught: the error is thrown on to the consumer
CaughtRethrown(p, origin) ==
    /\ status' = "error"
    /\ procs' = [procs EXCEPT ![p] =
                   [@ EXCEPT !.pc = "raised", !.origin = origin]]

\* catch (error): this.status = 'error'; yield { type: 'error', ... };
\* the call returns when its consumer asks for the next chunk
Caught(p, origin) ==
    /\ status' = "error"
    /\ procs' = [procs EXCEPT ![p] =
                   [@ EXCEPT !.pc = "failed",
                             !.origin = origin,
                             !.chunks = Append(@, ErrorChunk(origin))]]

\* the await of recall throws
ProcessRecallRaises(p) ==
    /\ procs[p].pc = "recalling"
    /\ procs[p].outcome = "throws"
    /\ Caught(p, "recall")
    /\ UNCHANGED <<callVars, managerVars, memoryVars, currentContext>>

\* buildContext, shouldUseTools, and the first next() of the planner's
\* or the gateway's generator
ProcessStreams(p) ==
    /\ procs[p].pc = "recalling"
    /\ procs[p].outcome = "ok"
    /\ status' = IF shouldUseTools(procs[p].input) THEN "executing"
                 ELSE status
    /\ procs' = [procs EXCEPT ![p] = [@ EXCEPT !.pc = "streaming"]]
    /\ UNCHANGED <<callVars, managerVars, memoryVars, currentContext>>

\* response += chunk.content || ''; yield chunk
ProcessYields(p) ==
    /\ procs[p].pc = "streaming"
    /\ LET stream == StreamOf(p, shouldUseTools(procs[p].input))
       IN  /\ procs[p].next <= Len(stream)
           /\ procs' = [procs EXCEPT ![p] =
                          [@ EXCEPT !.response =
                                       @ \o stream[procs[p].next].content,
                                    !.chunks =
                                       Append(@, stream[procs[p].next]),
                                    !.next = @ + 1]]
    /\ UNCHANGED <<callVars, managerVars, memoryVars, status,
                   currentContext>>

\* the planner or the gateway throws instead of its next chunk
ProcessStreamRaises(p) ==
    /\ procs[p].pc = "streaming"
    /\ Caught(p, IF shouldUseTools(procs[p].input) THEN "planner"
                 ELSE "gateway")
    /\ UNCHANGED <<callVars, managerVars, memoryVars, currentContext>>

\* the stream is over: the assistant message is pushed, and store runs
\* up to "await this.memory.store(...)"; its save() may throw
ProcessStores(p) ==
    /\ procs[p].pc = "streaming"
    /\ procs[p].next >
          Len(StreamOf(p, shouldUseTools(procs[p].input)))
    /\ currentContext' =
          Append(currentContext,
                 [role |-> "assistant", content |-> procs[p].response])
    /\ \E t \in {0, 1}, outcome \in {"ok", "throws"} :
         /\ clock' = clock + t
         /\ memories' = StoreMemories(memories, procs[p].input,
                                      procs[p].response, clock')
         /\ procs' = [procs EXCEPT ![p] =
                        [@ EXCEPT !.pc = "storing",
                                  !.outcome = outcome,
                                  !.stores = @ + 1]]
    /\ size' = StoreSize(size)
    /\ UNCHANGED <<callVars, managerVars, memCalls, status>>

\* the await of store throws
ProcessStoreRaises(p) ==
    /\ procs[p].pc = "storing"
    /\ procs[p].outcome = "throws"
    /\ Caught(p, "store")
    /\ UNCHANGED <<callVars, managerVars, memoryVars, currentContext>>

\* this.status = 'speaking' for a voice request, then this.status =
\* 'ready' and the call returns
ProcessCompletes(p) ==
    /\ procs[p].pc = "storing"
    /\ procs[p].outcome = "ok"
    /\ status' = "ready"
    /\ procs' = [procs EXCEPT ![p] = [@ EXCEPT !.pc = "completed"]]
    /\ UNCHANGED <<callVars, managerVars, memoryVars, currentContext>>

NextJarvis ==
    \/ \E p \in Calls : ProcessBegin(p)
    \/ \E p \in Calls : ProcessRecallRaises(p)
    \/ \E p \in Calls : ProcessStreams(p)
    \/ \E p \in Calls : ProcessYields(p)
    \/ \E p \in Calls : ProcessStreamRaises(p)
    \/ \E p \in Calls : ProcessStores(p)
    \/ \E p \in Calls : ProcessStoreRaises(p)
    \/ \E p \in Calls : ProcessCompletes(p)

SpecJarvis == InitJarvis /\ [][NextJarvis]_vars

---------------------------------------------------------------------------
(* Properties *)

Last(seq) == seq[Len(seq)]

Count(chunks, type) == Len(OfType(chunks, type))

ErrorOutcomes == {"TransportError", "SyntaxError", "TypeError"}

\* the stream invocation of the latest Gateway.stream call returned
StreamReturned == gw = "none" /\ attempts # <<>> /\ pc # "raised"

\* C1: a run of execute never issues more than maxIterations (10)
\* Gateway.stream calls; at the loop head after 10 turns that all ended
\* with tool calls, the only step is to yield the warning chunk and stop,
\* with no further Gateway call.
C1_GatewayCallsBounded ==
    /\ [](caller = "execute" =>
            /\ gwCalls <= maxIterations
            /\ gwCalls = iterations
            /\ (pc = "warned" =>
                  /\ gwCalls = maxIterations
                  /\ Last(out).type = "warning"
                  /\ Count(out, "warning") = 1
                  /\ gw = "none"))
    /\ [][(caller = "execute" /\ pc = "loop" /\ gwCalls = maxIterations) =>
            /\ pc' = "warned"
            /\ gwCalls' = gwCalls
            /\ out' = Append(out, PlainChunk("warning"))]_vars
    /\ [][pc = "warned" => FALSE]_vars

\* C1 witness: ten turns with tool calls each, then the warning
C1_Witness ==
    /\ pc = "warned"
    /\ gwCalls = maxIterations
    /\ Len(invoked) >= maxIterations

\* C2: a turn in which stream emitted no tool_call chunk ends the run:
\* execute yields one done chunk and returns, with no further Gateway call
\* and no tool invocation; a run whose first turn is such a turn made
\* exactly one Gateway call.
C2_NoToolCallsEndsRun ==
    /\ [](caller = "execute" =>
            /\ Count(out, "done") <= 1
            /\ (pc = "done" =>
                  /\ Count(out, "done") = 1
                  /\ Last(out).type = "done"
                  /\ toolCalls = <<>>
                  /\ gw = "none"
                  /\ (iterations = 1 => gwCalls = 1 /\ invoked = <<>>))
            /\ (Count(out, "done") = 1 => pc = "done"))
    /\ [][(pc = "turnEnd" /\ toolCalls = <<>>) =>
            /\ pc' = "done"
            /\ out' = Append(out, PlainChunk("done"))
            /\ gwCalls' = gwCalls
            /\ invoked' = invoked
            /\ messages' = messages]_vars
    /\ [][pc = "done" => FALSE]_vars

\* C2 witness: the first turn had no tool call and the run is over
C2_Witness ==
    /\ pc = "done"
    /\ iterations = 1
    /\ gwCalls = 1
    /\ Count(out, "done") = 1

\* C3: a tool invocation that raises does not abort the run: execute
\* yields a tool_error chunk, pushes a tool message with the error text
\* and the id of the call, and moves on to the next tool call of the turn;
\* after the last one the loop goes to its next iteration.  Only an error
\* thrown by stream makes execute raise.
C3_ToolFailureNeverAborts ==
    /\ [][pc = "invoking" =>
            LET tc == toolCalls[tcIdx]
            IN  /\ pc' = "tools"
                /\ tcIdx' = tcIdx + 1
                /\ toolCalls' = toolCalls
                /\ Len(invoked') = Len(invoked) + 1
                /\ Last(invoked').id = tc.id
                /\ Len(messages') = Len(messages) + 1
                /\ Last(messages').role = "tool"
                /\ Last(messages').tool_call_id = tc.id
                /\ (Last(invoked').threw =>
                      /\ Last(out').type = "tool_error"
                      /\ Last(out').tool = tc.tool
                      /\ Last(out').content =
                             Quote \o Last(messages').content \o Newline
                      /\ SubSeq(Last(messages').content, 1, 7) =
                             ErrorPrefix)]_vars
    /\ [][(pc = "tools" /\ tcIdx > Len(toolCalls)) => pc' = "loop"]_vars
    /\ [](pc = "raised" =>
            /\ Last(attempts).outcome \in ErrorOutcomes
            /\ error = Last(attempts).outcome)

\* C3 witness: a run in which a tool invocation raised, a later tool call
\* of the same turn was still handled, and a later turn without tool calls
\* ended the run with done
C3_Witness ==
    /\ pc = "done"
    /\ \E i \in 1..Len(invoked) : invoked[i].threw /\ i < Len(invoked)
    /\ \E i \in 1..Len(out) : out[i].type = "tool_error"


\* An assistant message with tool-call requests is followed at once by one
\* tool message per request, in request order, each with the id of its
\* call, and by no further tool message.
Paired(ms) ==
    \A i \in 1..Len(ms) :
      (ms[i].role = "assistant" /\ ms[i].tool_calls # <<>>) =>
        LET k == Len(ms[i].tool_calls)
        IN  /\ i + k <= Len(ms)
            /\ \A j \in 1..k :
                  /\ ms[i + j].role = "tool"
                  /\ ms[i + j].tool_call_id = ms[i].tool_calls[j].id
            /\ (i + k < Len(ms) => ms[i + k + 1].role # "tool")

\* ms is old extended by one assistant message with k >= 1 tool-call
\* requests and its k tool messages
ExtendedByOneTurn(old, ms) ==
    /\ Len(ms) > Len(old) + 1
    /\ SubSeq(ms, 1, Len(old)) = old
    /\ LET a == ms[Len(old) + 1]
       IN  /\ a.role = "assistant"
           /\ Len(a.tool_calls) >= 1
           /\ Len(ms) = Len(old) + 1 + Len(a.tool_calls)

\* C4: the message sequence of every Gateway.stream call of execute has
\* each assistant message with tool-call requests followed at once by one
\* tool message per request, in order and with its id; from the second
\* call on it is the sequence of the call before extended by exactly one
\* such assistant message and its tool messages.
C4_RoleSequencing ==
    (caller = "execute" /\ gwCalls >= 1) =>
        /\ Paired(request)
        /\ (gwCalls = 1 => request = ctxMessages)
        /\ (gwCalls >= 2 => ExtendedByOneTurn(prevRequest, request))

\* C4 witness: a second Gateway call whose sequence ends with an assistant
\* message carrying two requests and their two tool messages
C4_Witness ==
    /\ caller = "execute"
    /\ gwCalls = 2
    /\ Len(request) = Len(prevRequest) + 3
    /\ Len(request[Len(prevRequest) + 1].tool_calls) = 2

\* C5: one top-level stream invocation makes at most two endpoint calls,
\* the second one to the fallback model; when the second fails too, stream
\* throws to its caller and makes no third call.
C5_AtMostOneFallback ==
    /\ [](/\ Len(attempts) <= 2
          /\ (Len(attempts) = 2 => attempts[2].model = fastModel)
          /\ ((pc = "raised" /\ Len(attempts) = 2) =>
                /\ attempts[1].outcome \in ErrorOutcomes
                /\ attempts[2].outcome \in ErrorOutcomes))
    /\ [][(gw = "catch" /\ Len(attempts) = 2) =>
            /\ pc' = "raised"
            /\ gw' = "none"
            /\ attempts' = attempts]_vars

\* C5 witness: the selected model and the fallback model both failed
C5_Witness ==
    /\ pc = "raised"
    /\ Len(attempts) = 2
    /\ attempts[1].model # fastModel

\* C6: a failed endpoint call on a model other than the fallback model is
\* followed by one call of the same request on the fallback model; a
\* failed call on the fallback model (chosen by override or by routing) is
\* the only endpoint call, and its error reaches the caller.
C6_FallbackOnlyFromOtherModel ==
    /\ (Len(attempts) = 2 =>
          /\ attempts[1].model # fastModel
          /\ attempts[1].outcome \in ErrorOutcomes)
    /\ ((Len(attempts) >= 1 /\ attempts[1].model = fastModel) =>
          /\ Len(attempts) = 1
          /\ (attempts[1].outcome \in ErrorOutcomes =>
                gw = "catch" \/ (pc = "raised" /\ error = attempts[1].outcome)))
    /\ ((Len(attempts) >= 1 /\ attempts[1].model # fastModel
         /\ attempts[1].outcome \in ErrorOutcomes /\ gw = "none") =>
          Len(attempts) = 2)
    /\ (Len(attempts) >= 1 =>
          attempts[1].model = streamModel(override, taskType))

\* C6 witness: the fallback model was chosen by override, its call failed
\* and the error reached the caller after that one call
C6_Witness ==
    /\ override = fastModel
    /\ pc = "raised"
    /\ Len(attempts) = 1


\* C7: an argument text that does not parse as JSON is a failure of that
\* tool call alone: the endpoint call on which JSON.parse raised is the
\* last one of its stream invocation (the request is not issued again)
\* and the run of execute does not raise.
C7_ParseFailureConfined ==
    caller = "execute" =>
      \A k \in 1..Len(attempts) :
        attempts[k].outcome = "SyntaxError" =>
          /\ k = Len(attempts)
          /\ gw # "create"
          /\ pc # "raised"

\* The tool_call chunks of the stream invocation that carry the given id
ChunksOf(id) ==
    SelectSeq(gwOut, LAMBDA c : c.type = "tool_call" /\ c.id = id)

\* C8: while a response is read, the accumulator of each index holds the
\* concatenation, in arrival order, of the fragments delivered for that
\* index, whatever was delivered for other indices in between; and the
\* arguments of an emitted tool_call chunk are those JSON.parse gives for
\* the whole argument text of its call, however the text was split.
C8_FragmentsConcatenate ==
    \A k \in 1..Len(wire.calls) :
      LET call == wire.calls[k]
      IN  /\ (call.sent /\ gw = "reading") =>
                /\ ~NoSlot(acc, call.index)
                /\ acc[call.index + 1].arguments \o call.rest = call.text
          /\ \A i \in 1..Len(gwOut) :
                (gwOut[i].type = "tool_call" /\ gwOut[i].id = call.id) =>
                   /\ JSONparse(OrEmptyObject(call.text)).ok
                   /\ gwOut[i].arguments =
                          JSONparse(OrEmptyObject(call.text)).value

\* C8 witness: two calls whose argument texts both arrived in more than
\* one fragment (so interleaved or not) were emitted as tool_call chunks
C8_Witness ==
    /\ Len(wire.calls) = 2
    /\ \A k \in 1..2 :
          /\ wire.calls[k].frags >= 2
          /\ Len(ChunksOf(wire.calls[k].id)) = 1

\* the finish signal of the response being read has been handled
FinishHandled ==
    /\ attempts # <<>>
    /\ wire.calls # <<>>
    /\ \/ wire.finished
       \/ gw = "catch" /\ Last(attempts).outcome \in {"SyntaxError", "TypeError"}

\* C9: tool_call chunks are emitted only on the tool-calls finish signal:
\* after any other signal the response has given no tool_call chunk, and
\* after the tool-calls signal there is exactly one tool_call chunk for
\* every accumulator with a non-empty name and none for one without.
C9_ToolCallsOnlyOnSignal ==
    FinishHandled =>
      \A i \in 1..Len(acc) :
        ~acc[i].hole =>
          Len(ChunksOf(acc[i].id)) =
            IF wire.finish = "tool_calls" /\ acc[i].name # <<>>
            THEN 1 ELSE 0

\* C10: a stream invocation that returns has yielded exactly one done
\* chunk, as its last chunk, whose model is the model of the endpoint call
\* that completed; one that throws has yielded no done chunk.
C10_ExactlyOneDone ==
    /\ Count(gwOut, "done") <= 1
    /\ (StreamReturned =>
          /\ Count(gwOut, "done") = 1
          /\ Last(gwOut).type = "done"
          /\ Last(attempts).outcome = "completed"
          /\ Last(gwOut).model = Last(attempts).model)
    /\ (Count(gwOut, "done") = 1 => gw = "none" /\ pc # "raised")
    /\ (pc = "raised" => Count(gwOut, "done") = 0)

\* C10 witness: the selected model failed after yielding a content chunk,
\* the fallback model completed, and the done chunk names the fallback
C10_Witness ==
    /\ StreamReturned
    /\ Len(attempts) = 2
    /\ Len(gwOut) >= 2
    /\ gwOut[1].model # fastModel
    /\ Last(gwOut).type = "done"
    /\ Last(gwOut).model = fastModel


\* the tool_result and tool_error chunks yielded, and the tool messages
\* pushed: the i-th of each belongs to the i-th tool invocation
ToolChunks ==
    SelectSeq(out, LAMBDA c : c.type \in {"tool_result", "tool_error"})

ToolMessages == SelectSeq(messages, LAMBDA m : m.role = "tool")

\* C11 as the spec states it: for a tool call that returned a string of
\* length L, the content of the tool_result chunk has at most 203
\* characters and the tool message carries all L characters.
C11_ResultChunkAtMost203 ==
    \A i \in 1..Len(invoked) :
      (~invoked[i].threw /\ invoked[i].result.kind = "string") =>
         /\ ToolChunks[i].type = "tool_result"
         /\ Len(ToolChunks[i].content) <= TruncationLimit + Len(Ellipsis)
         /\ ToolMessages[i].content = invoked[i].result.str

\* C11, amended: for a tool call that returned a string of length L, the
\* content of the tool_result chunk is "> Result: ", a rendering of the
\* result, and a newline; the rendering is the result itself when
\* L <= 200 and its first 200 characters followed by "..." otherwise, so
\* it has at most 203 characters and the content at most 214; the tool
\* message carries all L characters.
C11_RenderingAtMost203 ==
    \A i \in 1..Len(invoked) :
      (~invoked[i].threw /\ invoked[i].result.kind = "string") =>
         LET str == invoked[i].result.str
             c == ToolChunks[i].content
             rendering == SubSeq(c, Len(ResultPrefix) + 1, Len(c) - 1)
         IN  /\ ToolChunks[i].type = "tool_result"
             /\ c = ResultPrefix \o rendering \o Newline
             /\ Len(rendering) <= 203
             /\ Len(c) <= 214
             /\ (Len(str) <= 200 => rendering = str)
             /\ (Len(str) > 200 =>
                   rendering = SubSeq(str, 1, 200) \o <<".", ".", ".">>)
             /\ ToolMessages[i].content = str
             /\ Len(ToolMessages[i].content) = Len(str)

\* C11 witness: a tool returned a string of 500 characters; the chunk
\* content has 214 characters and the tool message 500
C11_Witness ==
    \E i \in 1..Len(invoked) :
      /\ ~invoked[i].threw
      /\ invoked[i].result.kind = "string"
      /\ Len(invoked[i].result.str) = 500
      /\ Len(ToolChunks[i].content) = 214
      /\ Len(ToolMessages[i].content) = 500

\* C12: a tool invocation that returns without raising, whatever it
\* returns, gets a tool_result chunk and not a tool_error chunk, and a
\* tool message whose content is the text of the result, with the id of
\* the call.
C12_ReturnedMeansToolResult ==
    \A i \in 1..Len(invoked) :
      ~invoked[i].threw =>
         /\ ToolChunks[i].type = "tool_result"
         /\ ToolMessages[i].content = MessageText(invoked[i].result)
         /\ ToolMessages[i].tool_call_id = invoked[i].id


\* the position of the last chunk of the given type, 0 when there is none
LastIndexOf(chunks, type) ==
    LET I == {i \in 1..Len(chunks) : chunks[i].type = type}
    IN  IF I = {} THEN 0 ELSE CHOOSE i \in I : \A j \in I : j <= i

\* while the tool loop of a turn runs: the chunks yielded since the status
\* chunk that precedes the loop
LoopChunks == SubSeq(out, LastIndexOf(out, "status") + 1, Len(out))

\* C13: within one turn the tool calls are handled one after another in
\* the order stream emitted them: when the loop is at call i, calls 1..i-1
\* have each given tool_start, one invocation, one tool_result or
\* tool_error and one tool message, in that order and with nothing of a
\* later call in between, and call i has given at most its tool_start;
\* at any time at most one tool_start is without its result or error.
C13_ToolCallsSequential ==
    caller = "execute" =>
      /\ Count(out, "tool_start") - Len(ToolChunks) =
            IF pc = "invoking" THEN 1 ELSE 0
      /\ Len(invoked) = Len(ToolChunks)
      /\ Len(ToolMessages) = Len(ToolChunks)
      /\ (pc \in {"tools", "invoking"} =>
            LET handled == tcIdx - 1
                S == LoopChunks
                ms == SubSeq(messages, Len(messages) - handled,
                             Len(messages))
                inv == SubSeq(invoked, Len(invoked) - handled + 1,
                              Len(invoked))
            IN  /\ toolCalls = OfType(gwOut, "tool_call")
                /\ handled <= Len(toolCalls)
                /\ Len(S) = 2 * handled + (IF pc = "invoking" THEN 1 ELSE 0)
                /\ \A j \in 1..handled :
                      /\ S[2 * j - 1].type = "tool_start"
                      /\ S[2 * j - 1].tool = toolCalls[j].tool
                      /\ S[2 * j].type \in {"tool_result", "tool_error"}
                      /\ S[2 * j].tool = toolCalls[j].tool
                      /\ inv[j].id = toolCalls[j].id
                      /\ ms[j + 1].role = "tool"
                      /\ ms[j + 1].tool_call_id = toolCalls[j].id
                /\ ms[1].role = "assistant"
                /\ Len(ms[1].tool_calls) = Len(toolCalls)
                /\ \A j \in 1..Len(toolCalls) :
                      ms[1].tool_calls[j].id = toolCalls[j].id
                /\ (pc = "invoking" =>
                      /\ S[Len(S)].type = "tool_start"
                      /\ S[Len(S)].tool = toolCalls[tcIdx].tool))

\* C13 witness: the second call of a turn has its tool_start, after the
\* first call was invoked and gave its chunk and message
C13_Witness ==
    /\ caller = "execute"
    /\ pc = "invoking"
    /\ tcIdx = 2
    /\ Len(LoopChunks) = 3
    /\ toolCalls[1].tool # toolCalls[2].tool


\* C14: the chunks reach the caller of execute, and through Jarvis.process
\* and the socket handler the client, in the order they were produced: the
\* client has exactly the chunks execute yielded, in order; a step adds at
\* most one chunk, at the end; a content chunk stream yields is yielded
\* unchanged by execute and emitted to the client in that same step,
\* before stream is asked for its next chunk; and while a turn's stream
\* call is read, the chunks since the status chunk that closed the turn
\* before are exactly the content chunks of that call, in its order.
C14_GenerationOrder ==
    /\ [](caller = "execute" =>
            /\ client = out
            /\ (pc \in {"streaming", "turnEnd"} =>
                  LoopChunks = OfType(gwOut, "content")))
    /\ [][caller = "execute" =>
            /\ Len(out') <= Len(out) + 1
            /\ SubSeq(out', 1, Len(out)) = out
            /\ SubSeq(client', 1, Len(client)) = client
            /\ ((Len(gwOut') = Len(gwOut) + 1
                 /\ Last(gwOut').type = "content") =>
                  /\ out' = Append(out, Last(gwOut'))
                  /\ client' = Append(client, Last(gwOut')))]_vars

\* C14 witness: in the second turn of a run the client has received a
\* content chunk of the first turn, the chunks of its tool loop, and a
\* content chunk of the second turn, in that order
C14_Witness ==
    /\ caller = "execute"
    /\ iterations = 2
    /\ pc = "streaming"
    /\ Len(client) >= 6
    /\ client[1].type = "content"
    /\ client[2].type = "status"
    /\ client[3].type = "tool_start"
    /\ Last(client).type = "content"
    /\ Last(client) = Last(gwOut)


\* the number of invocations made for the tool call with the given id
Invocations(id) == Len(SelectSeq(invoked, LAMBDA e : e.id = id))

\* the tool loop of the turn has handled every call
TurnHandled ==
    \/ pc = "loop" /\ iterations >= 1
    \/ pc = "tools" /\ tcIdx > Len(toolCalls)

\* C15: no tool call is retried: execute collects exactly the tool_call
\* chunks stream yielded in the turn (those of a failed endpoint call and
\* those of the fallback call alike), invokes each at most once at any
\* time, the calls before the loop position once and the others not yet,
\* and when the tool loop is over each of them exactly once, whether the
\* invocation returned or raised; a step makes at most one invocation.
C15_InvokedExactlyOnce ==
    /\ [](caller = "execute" =>
            /\ \A i \in 1..Len(invoked) : Invocations(invoked[i].id) = 1
            /\ (pc \in {"turnEnd", "tools", "invoking"} \/ TurnHandled =>
                  toolCalls = OfType(gwOut, "tool_call"))
            /\ (pc \in {"tools", "invoking"} =>
                  \A k \in 1..Len(toolCalls) :
                    Invocations(toolCalls[k].id) =
                       IF k < tcIdx THEN 1 ELSE 0)
            /\ (TurnHandled =>
                  \A k \in 1..Len(toolCalls) :
                    Invocations(toolCalls[k].id) = 1))
    /\ [][Len(invoked') <= Len(invoked) + 1
          /\ SubSeq(invoked', 1, Len(invoked)) = invoked]_vars

\* C15 witness: a turn in which the selected model's call yielded a
\* tool_call chunk and then failed, the fallback call yielded one too, an
\* invocation raised, and the tool loop is over
C15_Witness ==
    /\ caller = "execute"
    /\ TurnHandled
    /\ Len(attempts) = 2
    /\ \E j, k \in 1..Len(toolCalls) :
          toolCalls[j].id[2] = 1 /\ toolCalls[k].id[2] = 2
    /\ \E i \in 1..Len(invoked) :
          invoked[i].threw /\ invoked[i].id[1] = gwCalls


\* C16: execute raises only out of a Gateway.stream call whose last
\* endpoint call, on the fallback model, failed: either the fallback call
\* made after the selected model's call failed, or the only call when the
\* selected model is the fallback model.  It raises from nowhere else: a
\* tool invocation that raised, or an unknown tool, leaves the run in its
\* tool loop.
C16_OnlyStreamErrorsEscape ==
    /\ []((caller = "execute" /\ pc = "raised") =>
            /\ gw = "none"
            /\ \A k \in 1..Len(attempts) :
                  attempts[k].outcome \in ErrorOutcomes
            /\ Last(attempts).model = fastModel
            /\ error = Last(attempts).outcome
            /\ \/ Len(attempts) = 2 /\ attempts[1].model # fastModel
               \/ Len(attempts) = 1 /\ selectModel(taskType) = fastModel)
    /\ [][(caller = "execute" /\ pc' = "raised" /\ pc # "raised") =>
            /\ pc = "streaming"
            /\ gw = "catch"
            /\ model = fastModel
            /\ UNCHANGED <<invoked, out, messages>>]_vars
    /\ [][(pc \in {"loop", "turnEnd", "tools", "invoking"}) =>
            (pc' # "raised")]_vars

\* C16 witness: a run of execute has raised after the selected model and
\* then the fallback model failed, the client having received content
C16_Witness ==
    /\ caller = "execute"
    /\ pc = "raised"
    /\ Len(attempts) = 2
    /\ attempts[2].outcome = "TransportError"
    /\ out # <<>>


\* C17: a call execute(name, args) with no tool registered under name
\* calls no tool function and raises the unknown-tool error; with a tool
\* registered under name it calls the function stored under that name,
\* once, with args, and ends as that call ended: it returns the same
\* result, or raises the same failure.  It leaves the registry as it was.
C17_ExecuteContract ==
    [][Len(execLog') = Len(execLog) + 1 =>
         LET e == Last(execLog')
             I == {i \in 1..Len(registry) : registry[i].name = e.name}
         IN  /\ registry' = registry
             /\ SubSeq(execLog', 1, Len(execLog)) = execLog
             /\ IF I = {}
                THEN /\ e.calls = <<>>
                     /\ e.outcome.threw
                     /\ e.outcome.message = <<"Unknown tool: ">> \o e.name
                ELSE /\ Len(e.calls) = 1
                     /\ \A i \in I : e.calls[1].fn = registry[i].execute
                     /\ e.calls[1].args = e.args
                     /\ e.outcome = e.calls[1].outcome]_vars

\* C17 witness: one execute call found no tool and raised, and another
\* called the built-in function, registered over a plugin's, and raised
\* that function's failure
C17_Witness ==
    /\ Len(execLog) = 2
    /\ execLog[1].calls = <<>>
    /\ execLog[1].outcome.threw
    /\ Len(execLog[2].calls) = 1
    /\ execLog[2].calls[1].fn = "builtin"
    /\ execLog[2].args = {"a"}
    /\ execLog[2].outcome = Throws(<<"tool failed">>)
    /\ \E k \in 1..Len(registered) :
          \E j \in 1..Len(registered[k].entries) :
             registered[k].entries[j].execute = "web"

\* the tools.set calls made since this.tools was last cleared, in order
RECURSIVE Flatten(_, _)
Flatten(calls, k) ==
    IF k > Len(calls) THEN <<>>
    ELSE calls[k].entries \o Flatten(calls, k + 1)

LastClear ==
    LET I == {k \in 1..Len(registered) : registered[k].op = "unloadAll"}
    IN  IF I = {} THEN 0 ELSE CHOOSE k \in I : \A j \in I : j <= k

SetCalls == Flatten(registered, LastClear + 1)

\* C18: after any sequence of register and registerBuiltInTools calls the
\* registry holds every name registered, each once, with the definition,
\* function and plugin of the last registration under that name; and
\* getToolDefinitions gives one definition per name.
C18_LastRegistrationWins ==
    /\ \A i, j \in 1..Len(registry) :
          i # j => registry[i].name # registry[j].name
    /\ \A k \in 1..Len(SetCalls) : MapHas(registry, SetCalls[k].name)
    /\ \A i \in 1..Len(registry) :
          LET K == {k \in 1..Len(SetCalls) :
                      SetCalls[k].name = registry[i].name}
          IN  /\ K # {}
              /\ registry[i] = SetCalls[CHOOSE k \in K : \A j \in K : j <= k]
    /\ LET defs == getToolDefinitions(registry)
       IN  /\ Len(defs) = Len(registry)
           /\ \A i, j \in 1..Len(defs) : i # j => defs[i].name # defs[j].name
           /\ \A i \in 1..Len(defs) : MapGet(registry, defs[i].name).definition
                                        = defs[i]

\* C18 witness: web_search was registered by a plugin and then by
\* registerBuiltInTools; the registry holds the built-in one, and a name
\* registered twice by one plugin holds the second tool
C18_Witness ==
    /\ \E k \in 1..Len(SetCalls) : SetCalls[k].execute = "web"
    /\ \E k \in 1..Len(SetCalls) : SetCalls[k].execute = "dup1"
    /\ MapHas(registry, <<"web_search">>)
    /\ MapGet(registry, <<"web_search">>).execute = "builtin"
    /\ MapGet(registry, <<"calculate">>).execute = "dup2"


\* C19: every Gateway.stream call of a run is given the tool definitions
\* context.tools held when the run began, whatever register,
\* registerBuiltInTools and unloadAll calls were made since: the tool
\* sets given so far are that one set, and no step changes context.tools.
C19_SameToolSet ==
    /\ [](\A r \in DOMAIN runs :
            runs[r].gwCalls >= 1 => runs[r].toolsSeen = {runs[r].tools})
    /\ [][\A r \in DOMAIN runs :
            runs[r].pc # "idle" => runs'[r].tools = runs[r].tools]_vars

\* the run's latest stream call was given a tool message with that content
Requested(r, content) ==
    \E i \in 1..Len(runs[r].request) :
       /\ runs[r].request[i].role = "tool"
       /\ runs[r].request[i].content = content

\* C19 witness: a run made a stream call, its tool returned, the registry
\* was emptied, its next tool call found no tool, and it made a further
\* stream call: the registry now gives other definitions than the run's
C19_Witness ==
    \E r \in DOMAIN runs :
       /\ runs[r].gwCalls >= 3
       /\ Requested(r, <<"r">>)
       /\ Requested(r, ErrorPrefix \o <<"Unknown tool: ", "web_search">>)
       /\ runs[r].tools # <<>>
       /\ getToolDefinitions(registry) # runs[r].tools

\* m is a message of run r: one of its context, or one that carries a
\* tool-call id of r
OwnMessage(m, r) ==
    \/ \E i \in 1..Len(RunContext(r)) : m = RunContext(r)[i]
    \/ /\ m.role = "assistant"
       /\ m.tool_calls # <<>>
       /\ \A k \in 1..Len(m.tool_calls) : m.tool_calls[k].id[1] = r
    \/ m.role = "tool" /\ m.tool_call_id[1] = r

\* C20: two interleaved runs share no run state: the messages of a run,
\* and those it gives the Gateway, are its own context followed by one
\* assistant message and one tool message for each of its own earlier
\* turns; its iteration counter is the number of its own Gateway calls,
\* at most maxIterations (10); and a step of one run changes nothing of
\* the other.
C20_RunsIndependent ==
    /\ [](\A r \in DOMAIN runs :
            /\ runs[r].gwCalls = runs[r].iterations
            /\ runs[r].gwCalls <= maxIterations
            /\ \A i \in 1..Len(runs[r].messages) :
                  OwnMessage(runs[r].messages[i], r)
            /\ \A i \in 1..Len(runs[r].request) :
                  OwnMessage(runs[r].request[i], r)
            /\ (runs[r].gwCalls >= 1 =>
                  Len(runs[r].request) =
                     Len(RunContext(r)) + 2 * (runs[r].gwCalls - 1)))
    /\ [][\A r, q \in DOMAIN runs :
            (r # q /\ runs'[r] # runs[r]) => runs'[q] = runs[q]]_vars

\* C20 witness: one run has made its ten Gateway calls and stopped with
\* the warning while the other is in the tool loop of its third turn
C20_Witness ==
    /\ runs[1].pc = "warned"
    /\ runs[1].gwCalls = maxIterations
    /\ runs[2].pc = "tools"
    /\ runs[2].gwCalls = 3
    /\ Len(runs[2].request) = 6


\* the consumer has taken the last chunk it will take
Stopped == stopAt # NoStop /\ Len(client) >= stopAt

\* C21: once the consumer of execute has stopped iterating, at whatever
\* chunk, the run does nothing more: it makes no Gateway.stream call, no
\* endpoint call (so no fallback either) and no tool invocation, starts no
\* iteration, pushes no message and yields no chunk; the only step left is
\* the generator being closed.
C21_NoWorkAfterStop ==
    /\ [](Stopped => Len(client) = stopAt /\ out = client)
    /\ [][Stopped =>
            /\ gwCalls' = gwCalls
            /\ iterations' = iterations
            /\ attempts' = attempts
            /\ invoked' = invoked
            /\ messages' = messages
            /\ client' = client
            /\ pc' = "closed"
            /\ gw' = "none"]_vars
    /\ [][pc = "closed" => FALSE]_vars

\* C21 witness: the consumer stopped at the status chunk that closes the
\* tool loop of the first turn; the run was closed with one Gateway call
\* and one invocation made, its second iteration never started
C21_Witness ==
    /\ pc = "closed"
    /\ stopAt = 4
    /\ Last(client).type = "status"
    /\ client[2].type = "tool_start"
    /\ Len(invoked) = 1
    /\ iterations = 1
    /\ gwCalls = 1


\* the model the stream call has selected
Selected == gw = "create" /\ attempts = <<>>

\* C22: stream uses the override model when one is given; otherwise the
\* routing-table entry of the request's task type; and
\* config.ai.defaultModel when the task type is absent or has no routing
\* entry.
C22_ModelSelection ==
    Selected =>
      model = IF ~Falsy(override) THEN override
              ELSE IF taskType \in DOMAIN routing THEN routing[taskType]
              ELSE defaultModel


\* the contents of the given chunks, concatenated in order
RECURSIVE ContentOf(_, _)
ContentOf(chunks, k) ==
    IF k > Len(chunks) THEN <<>>
    ELSE chunks[k].content \o ContentOf(chunks, k + 1)

IsPrefix(a, b) == Len(a) <= Len(b) /\ SubSeq(b, 1, Len(a)) = a

\* C24: the messages of an execute run only grow at the end: every step
\* leaves the messages there were in place and unchanged and adds at most
\* one; the sequence given to a Gateway call is the one given to the call
\* before with messages added at the end, and it starts with the caller's
\* context.messages, which no step changes and to which nothing is added.
C24_MessagesAppendOnly ==
    /\ [](caller = "execute" =>
            /\ IsPrefix(ctxMessages, messages)
            /\ IsPrefix(request, messages)
            /\ IsPrefix(prevRequest, request)
            /\ (gwCalls >= 1 => IsPrefix(ctxMessages, request))
            /\ (gwCalls >= 2 => Len(prevRequest) < Len(request))
            /\ ctxMessages \in Contexts)
    /\ [][caller = "execute" =>
            /\ IsPrefix(messages, messages')
            /\ Len(messages') <= Len(messages) + 1
            /\ ctxMessages' = ctxMessages
            /\ (gwCalls' # gwCalls =>
                  request' = messages /\ prevRequest' = request)]_vars

\* C24 witness: the run is in the tool loop of its third turn; its third
\* Gateway call was given the messages of the second and three more, and
\* the context still has its two messages
C24_Witness ==
    /\ caller = "execute"
    /\ gwCalls = 3
    /\ pc = "invoking"
    /\ Len(ctxMessages) = 2
    /\ Len(prevRequest) = 5
    /\ Len(request) = 7
    /\ Len(messages) = 8


\* C25: no chunk of type tool_call reaches the caller of Jarvis.process.
C25_NoToolCallToClient ==
    \A i \in 1..Len(client) : client[i].type # "tool_call"


\* the name fragments of the deltas for index i the given deltas carry,
\* concatenated in their order
RECURSIVE NameOf(_, _, _)
NameOf(deltas, i, k) ==
    IF k > Len(deltas) THEN <<>>
    ELSE (IF deltas[k].index = i THEN deltas[k].name ELSE <<>>)
         \o NameOf(deltas, i, k + 1)

\* the deltas that have arrived
Arrived == SelectSeq(wire.calls, LAMBDA d : d.sent)

\* C26: the name of the tool call at index i is the concatenation, in
\* arrival order, of the name fragments received for index i: so the
\* accumulator holds it while the response is read, and the tool_call
\* chunk emitted for index i carries the whole name, in however many
\* fragments it came.
C26_NameFragmentsConcatenate ==
    /\ \A i \in 0..(Len(acc) - 1) :
          ~acc[i + 1].hole => acc[i + 1].name = NameOf(Arrived, i, 1)
    /\ \A n \in 1..Len(gwOut) :
          gwOut[n].type = "tool_call" =>
             gwOut[n].tool = NameOf(wire.calls, gwOut[n].id[3], 1)


\* params.messages of the latest Gateway.stream call
WireMessages == formatMessages(request)

\* C27: in the wire request of every Gateway call of execute, each tool
\* message carries the id of its call and each assistant message that
\* requested tools carries its requests.
C27_WireKeepsToolLinkage ==
    (caller = "execute" /\ gwCalls >= 1) =>
       \A i \in 1..Len(request) :
          /\ WireMessages[i].role = request[i].role
          /\ WireMessages[i].content = request[i].content
          /\ (request[i].role = "tool" =>
                /\ "tool_call_id" \in DOMAIN WireMessages[i]
                /\ WireMessages[i].tool_call_id = request[i].tool_call_id)
          /\ (request[i].tool_calls # <<>> =>
                /\ "tool_calls" \in DOMAIN WireMessages[i]
                /\ WireMessages[i].tool_calls = request[i].tool_calls)


\* C28: the content and tool_call chunks a stream invocation has yielded
\* when it returns all carry the model of its done chunk: they come from
\* one endpoint call.
C28_ChunksOfOneModel ==
    StreamReturned =>
       \A i \in 1..Len(gwOut) :
          gwOut[i].type \in {"content", "tool_call"} =>
             gwOut[i].model = Last(gwOut).model

\* C29: deltas that use index 1 and never index 0, followed by the
\* tool-calls finish signal, end in one tool_call chunk for the index
\* that received a name, without an error and without a second endpoint
\* call.
C29_SparseIndicesEmit ==
    (FinishHandled /\ wire.finish = "tool_calls" /\ Len(wire.calls) = 1
       /\ wire.calls[1].index = 1 /\ wire.calls[1].name # <<>>
       /\ JSONparse(OrEmptyObject(wire.calls[1].text)).ok) =>
          /\ Len(ChunksOf(wire.calls[1].id)) = 1
          /\ gw # "catch"
          /\ Last(attempts).outcome \notin ErrorOutcomes


\* the done and warning chunks execute has yielded
Terminals == Count(out, "done") + Count(out, "warning")

\* C30: a run of execute yields at most one terminal chunk, done or
\* warning, and nothing after it: a run that has returned has yielded
\* exactly one, as its last chunk, done when the model stopped requesting
\* tools and warning at the ceiling; a run that raised has yielded none.
\* The done chunk of stream, which carries a model, is not yielded by
\* execute: its own done chunk carries none, and the step in which stream
\* yields done adds nothing to what execute has yielded.
C30_OneTerminalChunk ==
    /\ [](caller = "execute" =>
            /\ Terminals <= 1
            /\ (pc \in {"done", "warned"} =>
                  /\ Terminals = 1
                  /\ Last(out).type = IF pc = "done" THEN "done"
                                      ELSE "warning")
            /\ (Terminals = 1 =>
                  /\ pc \in {"done", "warned"}
                  /\ Last(out).type \in {"done", "warning"})
            /\ (pc = "raised" => Terminals = 0)
            /\ \A i \in 1..Len(out) :
                  out[i].type = "done" => out[i] = PlainChunk("done"))
    /\ [][(caller = "execute"
           /\ Count(gwOut', "done") > Count(gwOut, "done")) =>
            out' = out /\ client' = client]_vars
    /\ [][(caller = "execute" /\ pc \in {"done", "warned"}) => FALSE]_vars

\* C30 witness: a run has returned after two turns; stream yielded its
\* done chunk, with the model, in each, and the caller has one done chunk,
\* the last, without a model
C30_Witness ==
    /\ caller = "execute"
    /\ pc = "done"
    /\ iterations = 2
    /\ Last(gwOut).type = "done"
    /\ Last(gwOut).model # ""
    /\ Last(out) = PlainChunk("done")
    /\ Count(out, "status") = 2

\* the built-in tool of a name, as registerBuiltInTools stores it
BuiltInEntry(name) ==
    Entry(BuiltInTools[CHOOSE k \in 1..Len(BuiltInTools) :
                         BuiltInTools[k].name = name], "undefined")

BuiltInNames == { BuiltInTools[k].name : k \in 1..Len(BuiltInTools) }

IsSuffix(s, t) ==
    /\ Len(s) <= Len(t)
    /\ s = SubSeq(t, Len(t) - Len(s) + 1, Len(t))

\* C35: after any sequence of store calls at most 1000 memories are
\* retained and this.size, which getStatus reports as memorySize, is
\* their number; a store keeps the newest memories: what is retained
\* after it is a suffix of what was retained before followed by the new
\* memory.
C35_SizeIsRetained ==
    /\ [](/\ Len(memories) <= MemoryLimit
          /\ size = Len(memories))
    /\ [][/\ memories' # <<>>
          /\ IsSuffix(memories', Append(memories, Last(memories')))]_memories

Min(a, b) == IF a < b THEN a ELSE b

\* the query and a memory share a keyword
SharesKeyword(query, m) ==
    \E k \in 1..Len(extractKeywords(query)), j \in 1..Len(m.keywords) :
       extractKeywords(query)[k] = m.keywords[j]

\* the ways to read a result as summaries of distinct memories
Readings(result, mems) ==
    { f \in [1..Len(result) -> 1..Len(mems)] :
        /\ \A i, j \in 1..Len(result) : i # j => f[i] # f[j]
        /\ \A i \in 1..Len(result) : result[i] = Summary(mems[f[i]]) }

\* C36: a recall call returns at most limit entries (5 when no limit is
\* given).  With a keyword in the query the entries are summaries of
\* distinct memories that each share a keyword with the query, by
\* decreasing keyword overlap and, at equal overlap, later creation time
\* first.  Without a keyword they are the summaries of the last limit
\* memories, the most recent first.
C36_RecallContract ==
    \A c \in 1..Len(memCalls.recalled) :
       LET call == memCalls.recalled[c]
           limit == LimitOf(call.rest)
           keywords == extractKeywords(call.query)
           mems == call.memories
           result == call.result
           n == Min(limit, Len(mems))
       IN  /\ Len(result) <= limit
           /\ keywords # <<>> =>
                \E f \in Readings(result, mems) :
                   /\ \A i \in 1..Len(result) :
                         SharesKeyword(call.query, mems[f[i]])
                   /\ \A i, j \in 1..Len(result) :
                         i < j =>
                           LET a == mems[f[i]]
                               b == mems[f[j]]
                           IN  \/ Score(keywords, a) > Score(keywords, b)
                               \/ /\ Score(keywords, a) = Score(keywords, b)
                                  /\ a.createdAt >= b.createdAt
           /\ keywords = <<>> =>
                result = [i \in 1..n |-> Summary(mems[Len(mems) + 1 - i])]

\* no process call is in progress
Quiet == \A p \in Calls : ~InProgress(p)

\* C31: whenever no process call is in progress, currentContext is user,
\* assistant, user, assistant, ...: every user message is that of a call
\* and the message right after it is the assistant message with the
\* response of that call.
C31_ContextAlternates ==
    Quiet =>
        /\ Len(currentContext) % 2 = 0
        /\ \A i \in 1..Len(currentContext) :
              i % 2 = 1 =>
                /\ currentContext[i].role = "user"
                /\ currentContext[i + 1].role = "assistant"
                /\ \E p \in Calls :
                      /\ procs[p].input = currentContext[i].content
                      /\ procs[p].response = currentContext[i + 1].content

\* C32: while a process call has begun and has neither completed nor
\* failed, status is not 'ready'.
C32_ReadyOnlyWhenQuiet ==
    (\E p \in Calls : InProgress(p)) => status # "ready"

\* the errors of a call the memory recall, the planner or the gateway
\* raised
StreamErrors == {"recall", "planner", "gateway"}

\* the assistant messages of currentContext that hold texts of call p
RepliesOf(p) ==
    {i \in 1..Len(currentContext) :
       /\ currentContext[i].role = "assistant"
       /\ \E k \in 1..Len(currentContext[i].content) :
             currentContext[i].content[k] = CallTag(p)}

ErrorChunksOf(p) ==
    {k \in 1..Len(procs[p].chunks) : procs[p].chunks[k].type = "error"}

\* C33: no process call raises to its consumer.  A call that failed on
\* an error of recall, of the planner or of the gateway has yielded one
\* chunk of type error, its last chunk, has not called memory.store and
\* has no assistant message in currentContext, and the step on which it
\* fails leaves status 'error'.  A call that completed has called
\* memory.store once and yielded no error chunk; the step on which it
\* completes leaves status 'ready'; and no call yields a chunk after its
\* store call unless it fails.
C33_FailedOrStored ==
    /\ [](\A p \in Calls :
            /\ procs[p].pc # "raised"
            /\ (procs[p].pc = "failed" /\ procs[p].origin \in StreamErrors) =>
                  /\ ErrorChunksOf(p) = {Len(procs[p].chunks)}
                  /\ procs[p].stores = 0
                  /\ RepliesOf(p) = {}
            /\ procs[p].pc = "completed" =>
                  /\ procs[p].stores = 1
                  /\ ErrorChunksOf(p) = {}
                  /\ Cardinality(RepliesOf(p)) = 1)
    /\ [][\A p \in Calls :
            /\ (InProgress(p) /\ procs'[p].pc = "failed") =>
                  status' = "error"
            /\ (InProgress(p) /\ procs'[p].pc = "completed") =>
                  status' = "ready"
            /\ (procs[p].stores > 0 /\ procs'[p].chunks # procs[p].chunks) =>
                  procs'[p].pc = "failed"]_vars

\* C33 witness: one call failed in the planner after a chunk and another
\* completed after its content, both on the shared Jarvis
C33_Witness ==
    \E p, q \in Calls :
       /\ procs[p].pc = "failed"
       /\ procs[p].origin = "planner"
       /\ Len(procs[p].chunks) = 2
       /\ procs[q].pc = "completed"
       /\ Len(procs[q].chunks) >= 2

===========================================================================
